---- MODULE Spec2Model ----
(***************************************************************************)
(* Model of the LeetCode practice client's backend proxy                   *)
(* (server/index.mjs): the in-memory session store, the cookie sign-in,    *)
(* the /me refresh, logout, and the handlers that call the upstream        *)
(* platform through lcFetch / lcGraphql with the two-shape query fallback. *)
(*                                                                         *)
(* Every HTTP request the proxy serves occupies one slot of `req`.  A      *)
(* handler runs atomically from one `await` to the next (Node's single     *)
(* thread), so each action is the code between two suspension points.      *)
(* JSON scalars are modelled by the strings "true", "false", "null" and    *)
(* "undefined"; an absent object by NullRec.                               *)
(***************************************************************************)
EXTENDS Naturals, Sequences, FiniteSets, TLC

\* ------------------------------------------------------------ bounds
\* Number of requests the proxy serves concurrently.
MaxReq == 2
\* Number of session ids crypto.randomUUID() hands out in one run.
MaxSid == 2
\* Number of ';'-separated segments of a pasted cookie string.
MaxSegs == 2

VARIABLES
    sessions,   \* the Map `sessions`: session id -> session object
    nextSid,    \* how many ids randomUUID() has produced so far
    jar,        \* each browser's lc_sid cookie
    req,        \* the requests being served, one record per slot
    client      \* the page's state (App.vue) and its calls in flight

vars == <<sessions, nextSid, jar, req, client>>

\* ------------------------------------------------------------ values
NullRec == [isNull |-> TRUE]

Browsers == {"b1"}

\* req.cookies.lc_sid: 0 is "no cookie"; 1..MaxSid are ids randomUUID()
\* returns; StaleSid is an id this process never issued (a cookie that
\* outlived a restart, or a made-up one).
NoSid == 0
StaleSid == MaxSid + 1

ACCEPT_ZH == "zh-CN,zh;q=0.9,en;q=0.8"

\* ------------------------------------------------------------ strings
\* String.prototype.trim / toLowerCase / endsWith on the domain strings the
\* model feeds in.
TrimStr(s) ==
    CASE s = "  " -> ""
      [] s = " leetcode.cn " -> "leetcode.cn"
      [] OTHER -> s

LowerStr(s) ==
    CASE s = "LeetCode.CN" -> "leetcode.cn"
      [] s = "LEETCODE.COM" -> "leetcode.com"
      [] s = "ZH-CN" -> "zh-cn"
      [] s = "CSRFTOKEN" -> "csrftoken"
      [] s = "LEETCODE_SESSION" -> "leetcode_session"
      [] OTHER -> s

EndsWith(s, suffix) ==
    \/ s = suffix
    \/ suffix = "leetcode.cn" /\ s = "shop.leetcode.cn"
    \/ suffix = "leetcode.com" /\ s = "notleetcode.com"

\* Boolean(v) for a JSON scalar.
Truthy(v) == v \notin {"false", "null", "undefined", "#0", "NaN", ""}

\* String(v) for a JSON scalar: a number becomes its digits.
JsString(v) ==
    CASE v = "#0" -> "'0'"
      [] v = "#1" -> "'1'"
      [] v = "#50" -> "'50'"
      [] OTHER -> v

\* a ?? b
Coalesce(a, b) == IF a \in {"null", "undefined"} THEN b ELSE a

\* ------------------------------------------------------------ cookies
\* A cookie string is its ';'-separated segments.  A segment is the text
\*   [whitespace] name "=" value      (name # "")
\* or blank text (name = "").  <<>> is the empty string.
Seg(ws, name, value) == [ws |-> ws, name |-> name, value |-> value]

\* String.prototype.trim on a cookie string.
TrimCookie(c) ==
    IF c = << >> THEN c
    ELSE LET n == Len(c)
             c1 == [c EXCEPT ![1].ws = FALSE]
             c2 == [c1 EXCEPT ![n].value = IF @ = " " THEN "" ELSE @,
                              ![n].ws = IF c1[n].name = "" THEN FALSE ELSE @]
         IN  IF n = 1 /\ c2[1].name = "" THEN << >> ELSE c2

\* new RegExp(`(?:^|;\\s*)${name}=([^;]+)`, 'i') at segment i: the name must
\* start the string or follow a ';' and optional whitespace, and the value
\* must have at least one character.
SegMatches(cookieStr, i, name) ==
    /\ cookieStr[i].name # ""
    /\ LowerStr(cookieStr[i].name) = LowerStr(name)
    /\ cookieStr[i].value # ""
    /\ (i = 1 => ~cookieStr[i].ws)

\* The same lookup with the `(?:^|;\s*)` group left out of the pattern: the
\* name may then be the tail of a longer name.
extractCookieValueUnanchored(cookieStr, name) ==
    LET tail(n) == \/ LowerStr(n) = LowerStr(name)
                   \/ n = "xcsrftoken" /\ LowerStr(name) = "csrftoken"
        hits == {i \in 1..Len(cookieStr) :
                    tail(cookieStr[i].name) /\ cookieStr[i].value # ""}
    IN  IF hits = {} THEN "null"
        ELSE cookieStr[CHOOSE i \in hits : \A j \in hits : i <= j].value

extractCookieValue(cookieStr, name) ==
    LET hits == {i \in 1..Len(cookieStr) : SegMatches(cookieStr, i, name)}
    IN  IF hits = {} THEN "null"
        ELSE cookieStr[CHOOSE i \in hits : \A j \in hits : i <= j].value

\* ------------------------------------------------------------ session store
getSession(sid) ==
    IF sid = NoSid THEN NullRec
    ELSE IF sid \in DOMAIN sessions THEN sessions[sid] ELSE NullRec

\* A clearSession that empties the whole store.
clearSessionEvery(store, sid) ==
    IF sid # NoSid THEN [s \in {} |-> store[s]] ELSE store

\* sessions after clearSession(req, res): the id the request carried is deleted.
clearSession(store, sid) ==
    IF sid # NoSid THEN [s \in DOMAIN store \ {sid} |-> store[s]] ELSE store

\* setSession that sets the cookie only.
setSessionNowhere(store, sid, session) == store

\* sessions after setSession(res, session) storing under the fresh id `sid`.
setSession(store, sid, session) ==
    [s \in DOMAIN store \cup {sid} |-> IF s = sid THEN session ELSE store[s]]

ClearCookie == [op |-> "clear"]
SetCookie(sid) == [op |-> "set", sid |-> sid]

\* ------------------------------------------------------------ upstream
isCnDomain(domain) == EndsWith(LowerStr(domain), "leetcode.cn")

\* The request lcFetch sends: host from the session's domain (default the
\* primary one), cookie and x-csrftoken only when the session has them.
lcFetch(session, path, body) ==
    LET has(f) == f \in DOMAIN session
        domain == IF has("domain") /\ session.domain # "" THEN session.domain
                  ELSE "leetcode.com"
    IN  [host |-> domain,
         path |-> path,
         cookie |-> IF has("cookie") /\ session.cookie # << >>
                    THEN session.cookie ELSE << >>,
         csrftoken |-> IF has("csrftoken") /\ session.csrftoken # ""
                       THEN session.csrftoken ELSE "",
         acceptLanguage |-> IF has("acceptLanguage") THEN session.acceptLanguage ELSE "",
         body |-> body]

\* The request half of lcGraphql.
lcGraphqlSend(session, query, variables) ==
    lcFetch(session, <<"/graphql/">>, [query |-> query, variables |-> variables])

\* An upstream HTTP answer: the call failed (net = FALSE), or a status and a
\* body text that does not parse, parses to null, or parses to an object.
NetError == [net |-> FALSE]
HttpResp(status, text) == [net |-> TRUE, status |-> status, text |-> text]
BadText == [parse |-> "bad"]
NullJson == [parse |-> "null"]
Json(errors, data) == [parse |-> "obj", errors |-> errors, data |-> data]
HttpOk(status) == status >= 200 /\ status <= 299

\* The result half of lcGraphql.  threw: the promise rejects (fetch failed, or
\* `json.errors` was read on a null json).
Threw == [threw |-> TRUE, ok |-> FALSE]
\* A failure result that leaves the body out.
GqlFailNoRaw(status, error, raw) ==
    [threw |-> FALSE, ok |-> FALSE, status |-> status, error |-> error, raw |-> NullRec]

GqlFail(status, error, raw) ==
    [threw |-> FALSE, ok |-> FALSE, status |-> status, error |-> error, raw |-> raw]
GqlOk(data) == [threw |-> FALSE, ok |-> TRUE, status |-> 200, data |-> data]

lcGraphql(resp) ==
    IF ~resp.net THEN Threw
    ELSE IF resp.text.parse = "bad" THEN GqlFail(resp.status, "INVALID_JSON", resp.text)
    ELSE IF ~HttpOk(resp.status) THEN GqlFail(resp.status, "HTTP_ERROR", resp.text)
    ELSE IF resp.text.parse = "null" THEN Threw
    ELSE IF resp.text.errors THEN GqlFail(200, "GRAPHQL_ERROR", resp.text)
    ELSE GqlOk(resp.text.data)

\* data?.field
Field(data, f) == IF f \in DOMAIN data THEN data[f] ELSE NullRec

QUERY_USER_COM == "QUERY_USER_COM"
QUERY_USER_CN == "QUERY_USER_CN"
NoVars == [none |-> TRUE]

\* normalizeUser with is_verified: Boolean(userStatus.is_verified).
normalizeUserCoercing(domain, userStatus) ==
    IF userStatus = NullRec THEN NullRec
    ELSE LET bool(v) == IF Truthy(v) THEN "true" ELSE "false"
         IN  IF isCnDomain(domain)
             THEN [id |-> "null",
                   name |-> Coalesce(userStatus.name, "null"),
                   is_signed_in |-> bool(userStatus.is_signed_in),
                   is_premium |-> bool(userStatus.is_premium),
                   is_verified |-> bool(userStatus.is_verified),
                   session_id |-> "null",
                   slug |-> Coalesce(userStatus.slug, "null"),
                   real_name |-> Coalesce(userStatus.real_name, "null")]
             ELSE [id |-> Coalesce(userStatus.id, "null"),
                   name |-> Coalesce(userStatus.name, "null"),
                   is_signed_in |-> bool(userStatus.is_signed_in),
                   is_premium |-> bool(userStatus.is_premium),
                   is_verified |-> bool(userStatus.is_verified),
                   session_id |-> Coalesce(userStatus.session_id, "null")]

normalizeUser(domain, userStatus) ==
    IF userStatus = NullRec THEN NullRec
    ELSE LET isVerifiedRaw == userStatus.is_verified
             isVerified ==
                 IF isVerifiedRaw \in {"true", "false"} THEN isVerifiedRaw
                 ELSE IF isVerifiedRaw \in {"null", "undefined"} THEN "null"
                 ELSE IF Truthy(isVerifiedRaw) THEN "true" ELSE "false"
             bool(v) == IF Truthy(v) THEN "true" ELSE "false"
         IN  IF isCnDomain(domain)
             THEN [id |-> "null",
                   name |-> Coalesce(userStatus.name, "null"),
                   is_signed_in |-> bool(userStatus.is_signed_in),
                   is_premium |-> bool(userStatus.is_premium),
                   is_verified |-> isVerified,
                   session_id |-> "null",
                   slug |-> Coalesce(userStatus.slug, "null"),
                   real_name |-> Coalesce(userStatus.real_name, "null")]
             ELSE [id |-> Coalesce(userStatus.id, "null"),
                   name |-> Coalesce(userStatus.name, "null"),
                   is_signed_in |-> bool(userStatus.is_signed_in),
                   is_premium |-> bool(userStatus.is_premium),
                   is_verified |-> isVerified,
                   session_id |-> Coalesce(userStatus.session_id, "null")]

\* ------------------------------------------------------------ requests
Idle == [pc |-> "idle"]

\* A request being served: the endpoint, the browser that sent it, the
\* lc_sid it carried, the handler's `session` (the fields lcFetch reads),
\* its inputs and locals, the upstream requests it has issued so far, and
\* the response once written.
Slot(pc, kind, b, sid, session, in, loc, sent, res) ==
    [pc |-> pc, kind |-> kind, b |-> b, sid |-> sid, session |-> session,
     in |-> in, loc |-> loc, sent |-> sent, res |-> res]

Reply(status, body, setCookie) ==
    [status |-> status, body |-> body, setCookie |-> setCookie]

\* The handler has written its response; its locals are gone.
Done(slot, res) ==
    [slot EXCEPT !.pc = "done", !.res = res, !.session = NullRec, !.loc = NullRec]

\* The handler's promise rejected: the handler writes no response.
Thrown(slot) ==
    [slot EXCEPT !.pc = "thrown", !.session = NullRec, !.loc = NullRec]

\* The part of a session object lcFetch reads; none of it changes after
\* sign-in (acceptLanguage is only ever re-assigned the same value).
View(session) ==
    [domain |-> session.domain, cookie |-> session.cookie,
     csrftoken |-> session.csrftoken, acceptLanguage |-> session.acceptLanguage]

\* An upstream exchange: the request lcFetch sent and, once it arrived, the
\* answer.
Exchange(request) == [request |-> request, answer |-> NullRec]
Send(slot, request) == [slot EXCEPT !.sent = Append(@, Exchange(request))]
Answered(slot, resp) == [slot EXCEPT !.sent[Len(slot.sent)].answer = resp]

NotAuthenticated == Reply(401, [error |-> "NOT_AUTHENTICATED"], << >>)

\* The upstream answers the query it was sent: a GraphQL answer carries the
\* fields (aliases) of that query.
LastSent(r) == req[r].sent[Len(req[r].sent)]

Answers(resp, sent) ==
    LET q == sent.request.body.query
        shaped(u) == IF u = NullRec THEN TRUE
                     ELSE IF q = QUERY_USER_CN THEN u.id = "undefined"
                     ELSE IF q = QUERY_USER_COM THEN u.slug = "undefined"
                     ELSE TRUE
    IN  (resp.net /\ resp.text.parse = "obj" /\ "userStatus" \in DOMAIN resp.text.data)
            => shaped(resp.text.data.userStatus)

\* ------------------------------------------------------------ POST /api/auth/cookie
\* Up to the first await: parse the body, check the cookie, send the
\* user-status query.
AuthCookie(r, b, body) ==
    /\ req[r].pc = "idle"
    /\ LET cookie == TrimCookie(body.cookie)
           domain == IF TrimStr(body.domain) = "" THEN "leetcode.com"
                     ELSE TrimStr(body.domain)
           csrftoken == extractCookieValue(cookie, "csrftoken")
           leetcodeSession == extractCookieValue(cookie, "LEETCODE_SESSION")
           session == [domain |-> domain, cookie |-> cookie, csrftoken |-> csrftoken,
                       user |-> NullRec, acceptLanguage |-> ACCEPT_ZH]
           meQuery == IF isCnDomain(domain) THEN QUERY_USER_CN ELSE QUERY_USER_COM
           start == Slot("auth_me", "auth", b, jar[b], session, body, NullRec, << >>, NullRec)
       IN  req' = [req EXCEPT ![r] =
               IF cookie = << >>
               THEN Done(start, Reply(400, [error |-> "COOKIE_REQUIRED"], << >>))
               ELSE IF csrftoken = "null" \/ leetcodeSession = "null"
               THEN Done(start, Reply(400, [error |-> "COOKIE_INVALID"], << >>))
               ELSE Send(start, lcGraphqlSend(session, meQuery, NoVars))]
    /\ UNCHANGED <<sessions, nextSid, jar, client>>

\* The 401 that also clears the browser's lc_sid.
NotSignedInClearing(user) ==
    Reply(401, [error |-> "NOT_SIGNED_IN", user |-> user], <<ClearCookie>>)

\* The 401 without the profile.
NotSignedInBare(user) == Reply(401, [error |-> "NOT_SIGNED_IN", user |-> NullRec], << >>)

\* The 401 of a profile that is not signed in: the (partial) profile goes
\* out with the error.
NotSignedIn(user) == Reply(401, [error |-> "NOT_SIGNED_IN", user |-> user], << >>)

\* From the user-status answer to the response.
\* The flag computed as `!user.is_verified`.
emailNotVerifiedLoose(user) == user.is_verified # "true"

\* user?.is_verified === false (line 386).
emailNotVerified(user) == user.is_verified = "false"

AuthCookieResume(r, resp) ==
    /\ req[r].pc = "auth_me"
    /\ Answers(resp, LastSent(r))
    /\ LET slot == Answered(req[r], resp)
           session == slot.session
           me == lcGraphql(resp)
           user == normalizeUser(session.domain, Field(me.data, "userStatus"))
           sid == nextSid + 1
       IN  IF me.threw
           THEN /\ req' = [req EXCEPT ![r] = Thrown(slot)]
                /\ UNCHANGED <<sessions, nextSid>>
           ELSE IF ~me.ok
           THEN /\ req' = [req EXCEPT ![r] =
                        Done(slot, Reply(401, [error |-> "AUTH_FAILED", detail |-> me], << >>))]
                /\ UNCHANGED <<sessions, nextSid>>
           ELSE IF user = NullRec \/ user.is_signed_in # "true"
           THEN /\ req' = [req EXCEPT ![r] =
                        Done(slot, NotSignedIn(user))]
                /\ UNCHANGED <<sessions, nextSid>>
           ELSE /\ nextSid < MaxSid
                /\ sessions' = setSession(clearSession(sessions, slot.sid), sid,
                                          [session EXCEPT !.user = user])
                /\ nextSid' = sid
                /\ req' = [req EXCEPT ![r] =
                        Done(slot, Reply(200,
                                         [user |-> user,
                                          emailNotVerified |-> emailNotVerified(user)],
                                         <<ClearCookie, SetCookie(sid)>>))]
    /\ UNCHANGED <<jar, client>>

\* ------------------------------------------------------------ GET /api/auth/me
Me(r, b) ==
    /\ req[r].pc = "idle"
    /\ LET session == getSession(jar[b])
           start == Slot("me_wait", "me", b, jar[b], NullRec, NullRec, NullRec, << >>, NullRec)
       IN  req' = [req EXCEPT ![r] =
               IF session = NullRec THEN Done(start, NotAuthenticated)
               ELSE LET meQuery == IF isCnDomain(session.domain)
                                   THEN QUERY_USER_CN ELSE QUERY_USER_COM
                    IN  Send([start EXCEPT !.session = View(session)],
                             lcGraphqlSend(session, meQuery, NoVars))]
    /\ UNCHANGED <<sessions, nextSid, jar, client>>

\* A refresh that stores the session object it holds under its id again.
refreshUserReinserting(store, sid, session, user) ==
    (sid :> [session EXCEPT !.user = user]) @@ store

\* session.user = normalizeUser(...): an assignment to the object read
\* before the await; the store shows it only while it still holds that object.
refreshUser(store, sid, session, user) ==
    IF sid \in DOMAIN store
    THEN [store EXCEPT ![sid].user = user]
    ELSE store

MeResume(r, resp) ==
    /\ req[r].pc = "me_wait"
    /\ Answers(resp, LastSent(r))
    /\ LET slot == Answered(req[r], resp)
           me == lcGraphql(resp)
           user == normalizeUser(slot.session.domain, Field(me.data, "userStatus"))
       IN  IF me.threw
           THEN /\ req' = [req EXCEPT ![r] = Thrown(slot)]
                /\ UNCHANGED sessions
           ELSE IF ~me.ok
           THEN /\ sessions' = clearSession(sessions, slot.sid)
                /\ req' = [req EXCEPT ![r] =
                        Done(slot, Reply(401, [error |-> "SESSION_EXPIRED"], <<ClearCookie>>))]
           ELSE \* session.user = ...: the object is the one stored under slot.sid,
                \* if it is still stored.
                /\ sessions' = refreshUser(sessions, slot.sid, slot.session, user)
                /\ req' = [req EXCEPT ![r] = Done(slot, Reply(200, [user |-> user], << >>))]
    /\ UNCHANGED <<nextSid, jar, client>>

\* ------------------------------------------------------------ POST /api/auth/logout
\* A logout that asks for a session first, as the data endpoints do.
LogoutGuarded(r, b) ==
    /\ req[r].pc = "idle"
    /\ sessions' = clearSession(sessions, jar[b])
    /\ req' = [req EXCEPT ![r] =
            Slot("done", "logout", b, jar[b], NullRec, NullRec, NullRec, << >>,
                 IF getSession(jar[b]) = NullRec THEN NotAuthenticated
                 ELSE Reply(200, [ok |-> TRUE], <<ClearCookie>>))]
    /\ UNCHANGED <<nextSid, jar, client>>

Logout(r, b) ==
    /\ req[r].pc = "idle"
    /\ sessions' = clearSession(sessions, jar[b])
    /\ req' = [req EXCEPT ![r] =
            Slot("done", "logout", b, jar[b], NullRec, NullRec, NullRec, << >>,
                 Reply(200, [ok |-> TRUE], <<ClearCookie>>))]
    /\ UNCHANGED <<nextSid, jar, client>>

\* ------------------------------------------------------------ query fallback
QUERY_PROBLEMSET_LIST == "QUERY_PROBLEMSET_LIST"
QUERY_PROBLEMSET_LIST_TITLECN == "QUERY_PROBLEMSET_LIST_TITLECN"
QUERY_QUESTION == "QUERY_QUESTION"
QUERY_QUESTION_TITLECN == "QUERY_QUESTION_TITLECN"

\* The session object the enrichment lookups use.
cnSession == [domain |-> "leetcode.cn", acceptLanguage |-> ACCEPT_ZH]

\* Locals of a handler that is inside lcProblemsetQuestionList / lcQuestion:
\* which lookup of the handler this is, the session object and variables
\* passed, the first attempt's result, and what the handler holds meanwhile.
Loc(phase, using, variables, first, keep) ==
    [phase |-> phase, using |-> using, variables |-> variables,
     first |-> first, keep |-> keep]

\* What lcProblemsetQuestionList / lcQuestion return once the second
\* attempt has been answered.
lcProblemsetQuestionListReturn(first, second) == IF second.ok THEN second ELSE first

\* lcQuestion that ignores what its second attempt returned.
lcQuestionReturnFirst(first, second) == first

lcQuestionReturn(first, second) == IF second.ok THEN second ELSE first

\* lcProblemsetQuestionList(using, variables) up to its first await.
StartList(slot, phase, using, variables, keep) ==
    Send([slot EXCEPT !.pc = "list_first",
                      !.loc = Loc(phase, using, variables, NullRec, keep)],
         lcGraphqlSend(using, QUERY_PROBLEMSET_LIST, variables))

\* lcQuestion(using, titleSlug) up to its first await.
StartQuestion(slot, phase, using, titleSlug, keep) ==
    Send([slot EXCEPT !.pc = "question_first",
                      !.loc = Loc(phase, using, [titleSlug |-> titleSlug], NullRec, keep)],
         lcGraphqlSend(using, QUERY_QUESTION, [titleSlug |-> titleSlug]))

\* ------------------------------------------------------------ GET /api/problems
\* Number(v), typeof v === 'number', String.includes on the values fed in.
IsNumber(v) == v \in {"#0", "#1", "#50", "NaN"}
JsNumber(v) ==
    CASE IsNumber(v) -> v
      [] v = "'1'" -> "#1"
      [] v = "'50'" -> "#50"
      [] v \in {"null", "false", "", "'0'"} -> "#0"
      [] v = "true" -> "#1"
      [] OTHER -> "NaN"

Includes(s, q) ==
    \/ q = ""
    \/ s = q
    \/ q = "two" /\ s \in {"two sum", "two-sum"}
    \/ q = "1" /\ s \in {"1", "'1'", "#1"}

LowerTitle(s) ==
    CASE s = "Two Sum" -> "two sum"
      [] s = "Add Two" -> "add two"
      [] s \in {"null", "undefined"} -> ""
      [] OTHER -> s

\* One element of questions.map(...) on the GraphQL path.
ListItem(x) ==
    [id |-> IF JsNumber(x.id) = "NaN" THEN "#0" ELSE JsNumber(x.id),
     frontendId |-> Coalesce(x.frontendId, ""),
     title |-> Coalesce(x.title, ""),
     titleZh |-> Coalesce(x.titleZh, "null"),
     titleSlug |-> Coalesce(x.titleSlug, ""),
     paidOnly |-> Truthy(x.paidOnly),
     difficulty |-> IF Truthy(x.difficulty) THEN x.difficulty ELSE "Unknown",
     status |-> IF Truthy(x.status) THEN x.status ELSE "null",
     acRate |-> IF IsNumber(x.acRate) THEN x.acRate
                ELSE IF x.acRate \in {"null", "undefined"} THEN "null"
                ELSE JsNumber(x.acRate)]

MapSeq(f(_), xs) == [i \in 1..Len(xs) |-> f(xs[i])]

\* gql.ok ? gql.data?.problemsetQuestionList?.questions : null, as a
\* sequence (anything that is not an array is the empty one here: both are
\* skipped by `Array.isArray(questions) && questions.length`).
QuestionsOf(gql) ==
    IF ~gql.ok THEN << >>
    ELSE LET list == Field(gql.data, "problemsetQuestionList")
         IN  IF "questions" \in DOMAIN list THEN list.questions ELSE << >>

needCnFill(session, items) ==
    /\ EndsWith(LowerStr(session.domain), "leetcode.com")
    /\ \E i \in 1..Len(items) : ~Truthy(items[i].titleZh) /\ Truthy(items[i].titleSlug)

\* The fill-in without its `if (it.titleZh) return it`.
CnFillAlways(items, cnQuestions) ==
    LET keyed == {j \in 1..Len(cnQuestions) : Truthy(cnQuestions[j].titleSlug)}
        hits(slug) == {j \in keyed : cnQuestions[j].titleSlug = slug}
        zhOf(slug) == IF hits(slug) = {} THEN "undefined"
                      ELSE Coalesce(cnQuestions[CHOOSE j \in hits(slug) :
                                        \A k \in hits(slug) : k <= j].titleZh, "null")
        fill(it) == IF Truthy(zhOf(it.titleSlug))
                    THEN [it EXCEPT !.titleZh = zhOf(it.titleSlug)]
                    ELSE it
    IN  MapSeq(fill, items)

\* items.map(...) over cnMap: the last entry of a slug wins in new Map(...).
CnFill(items, cnQuestions) ==
    LET keyed == {j \in 1..Len(cnQuestions) : Truthy(cnQuestions[j].titleSlug)}
        hits(slug) == {j \in keyed : cnQuestions[j].titleSlug = slug}
        zhOf(slug) == IF hits(slug) = {} THEN "undefined"
                      ELSE Coalesce(cnQuestions[CHOOSE j \in hits(slug) :
                                        \A k \in hits(slug) : k <= j].titleZh, "null")
        fill(it) == IF Truthy(it.titleZh) THEN it
                    ELSE IF Truthy(zhOf(it.titleSlug))
                         THEN [it EXCEPT !.titleZh = zhOf(it.titleSlug)]
                         ELSE it
    IN  MapSeq(fill, items)

RestPath(category) == <<"/api/problems/", category, "/">>

ListVariables(category, q) ==
    [categorySlug |-> IF category = "algorithms" THEN "null" ELSE category,
     limit |-> 2000, skip |-> 0,
     filters |-> IF q # "" THEN [searchKeywords |-> q] ELSE [none |-> TRUE]]

\* The REST request of the handler (line 491).
StartRest(slot, session, category) ==
    Send([slot EXCEPT !.pc = "rest"], lcFetch(session, RestPath(category), NullRec))

Problems(r, b, query) ==
    /\ req[r].pc = "idle"
    /\ LET session == getSession(jar[b])
           q == LowerStr(TrimStr(query.q))
           category == IF TrimStr(query.category) = "" THEN "algorithms"
                       ELSE TrimStr(query.category)
           lang == LowerStr(TrimStr(query.lang))
           zh == lang \in {"zh", "zh-cn", "cn"}
           start == Slot("idle", "problems", b, jar[b], NullRec,
                         [q |-> q, category |-> category, lang |-> lang],
                         NullRec, << >>, NullRec)
       IN  IF session = NullRec
           THEN /\ req' = [req EXCEPT ![r] = Done(start, NotAuthenticated)]
                /\ UNCHANGED sessions
           ELSE /\ sessions' = IF zh THEN [sessions EXCEPT ![jar[b]].acceptLanguage = ACCEPT_ZH]
                               ELSE sessions
                /\ req' = [req EXCEPT ![r] =
                       LET s0 == [start EXCEPT !.session = View(session)]
                       IN  IF zh THEN StartList(s0, "main", View(session),
                                                ListVariables(category, q), NullRec)
                           ELSE StartRest(s0, View(session), category)]
    /\ UNCHANGED <<nextSid, jar, client>>

\* The handler answering with the empty catalog where it falls back to REST.
ProblemsAfterListNoRest(slot, gql) ==
    LET questions == QuestionsOf(gql)
    IN  IF slot.loc.phase = "main"
        THEN IF questions # << >>
             THEN LET items == MapSeq(ListItem, questions)
                  IN  IF needCnFill(slot.session, items)
                      THEN StartList(slot, "cn", cnSession, slot.loc.variables, items)
                      ELSE Done(slot, Reply(200, [items |-> items], << >>))
             ELSE Done(slot, Reply(200, [items |-> << >>], << >>))
        ELSE LET items == slot.loc.keep
             IN  Done(slot, Reply(200, [items |-> IF questions # << >>
                                                  THEN CnFill(items, questions)
                                                  ELSE items], << >>))

\* The handler from the point where lcProblemsetQuestionList has returned gql.
ProblemsAfterList(slot, gql) ==
    LET questions == QuestionsOf(gql)
    IN  IF slot.loc.phase = "main"
        THEN IF questions # << >>
             THEN LET items == MapSeq(ListItem, questions)
                  IN  IF needCnFill(slot.session, items)
                      THEN StartList(slot, "cn", cnSession, slot.loc.variables, items)
                      ELSE Done(slot, Reply(200, [items |-> items], << >>))
             ELSE StartRest(slot, slot.session, slot.in.category)
        ELSE LET items == slot.loc.keep
             IN  Done(slot, Reply(200, [items |-> IF questions # << >>
                                                  THEN CnFill(items, questions)
                                                  ELSE items], << >>))

lcProblemsetQuestionListFirst(r, resp) ==
    /\ req[r].pc = "list_first"
    /\ LET slot == Answered(req[r], resp)
           first == lcGraphql(resp)
       IN  req' = [req EXCEPT ![r] =
               IF first.threw THEN Thrown(slot)
               ELSE IF first.ok THEN ProblemsAfterList(slot, first)
               ELSE Send([slot EXCEPT !.pc = "list_second", !.loc.first = first],
                         lcGraphqlSend(slot.loc.using, QUERY_PROBLEMSET_LIST_TITLECN,
                                       slot.loc.variables))]
    /\ UNCHANGED <<sessions, nextSid, jar, client>>

lcProblemsetQuestionListSecond(r, resp) ==
    /\ req[r].pc = "list_second"
    /\ LET slot == Answered(req[r], resp)
           second == lcGraphql(resp)
       IN  req' = [req EXCEPT ![r] =
               IF second.threw THEN Thrown(slot)
               ELSE ProblemsAfterList(slot,
                        lcProblemsetQuestionListReturn(slot.loc.first, second))]
    /\ UNCHANGED <<sessions, nextSid, jar, client>>

\* (acs / submitted) * 100 on the counts fed in.
RateOf(acs, submitted) ==
    CASE acs = 0 -> "#0"
      [] acs = submitted -> "#100"
      [] acs = 1 /\ submitted = 2 -> "#50"
      [] OTHER -> "#other"

\* The rate as the bare division: 0/0 is NaN, n/0 is Infinity.
acRateUnguarded(totalAcs, totalSubmitted) ==
    IF totalSubmitted > 0 THEN RateOf(totalAcs, totalSubmitted)
    ELSE IF totalAcs = 0 THEN "NaN" ELSE "Infinity"

\* totalSubmitted > 0 ? (totalAcs / totalSubmitted) * 100 : null (line 514).
acRateOf(totalAcs, totalSubmitted) ==
    IF totalSubmitted > 0 THEN RateOf(totalAcs, totalSubmitted) ELSE "null"

\* Number(v || 0) of a count.
CountOf(v) ==
    CASE v = "#1" -> 1
      [] v = "#2" -> 2
      [] OTHER -> 0

\* obj.f of a JSON object that may lack the field.
Prop(obj, f) == IF f \in DOMAIN obj THEN obj[f] ELSE "undefined"

\* One element of pairs.map(...) on the REST path.
RestItem(p) ==
    LET stat == IF "stat" \in DOMAIN p THEN p.stat ELSE NullRec
        level == IF "difficulty" \in DOMAIN p THEN Prop(p.difficulty, "level")
                 ELSE "undefined"
        totalAcs == CountOf(Prop(stat, "total_acs"))
        totalSubmitted == CountOf(Prop(stat, "total_submitted"))
    IN  [id |-> Prop(stat, "question_id"),
         frontendId |-> Coalesce(Prop(stat, "frontend_question_id"), ""),
         title |-> Prop(stat, "question__title"),
         titleZh |-> "null",
         titleSlug |-> Prop(stat, "question__title_slug"),
         paidOnly |-> Truthy(Prop(p, "paid_only")),
         difficulty |-> CASE level = "#1" -> "Easy"
                          [] level = "#2" -> "Medium"
                          [] level = "#3" -> "Hard"
                          [] OTHER -> "Unknown",
         status |-> IF Truthy(Prop(p, "status")) THEN p.status ELSE "null",
         acRate |-> acRateOf(totalAcs, totalSubmitted)]

RestFilter(items, q) ==
    IF q = "" THEN items
    ELSE LET hit(x) == \/ Includes(LowerTitle(x.title), q)
                       \/ Includes(LowerTitle(x.titleSlug), q)
                       \/ Includes(x.frontendId, q)
         IN  SelectSeq(items, hit)

\* The answer of the REST catalog endpoint.
ProblemsRest(r, resp) ==
    /\ req[r].pc = "rest"
    /\ LET slot == Answered(req[r], resp)
       IN  req' = [req EXCEPT ![r] =
               IF ~resp.net THEN Thrown(slot)
               ELSE IF ~HttpOk(resp.status)
               THEN Done(slot, Reply(502, [error |-> "UPSTREAM_ERROR",
                                           status |-> resp.status, raw |-> resp.text], << >>))
               ELSE IF resp.text.parse = "bad" THEN Thrown(slot)
               ELSE LET pairs == IF resp.text.parse = "obj"
                                    /\ "stat_status_pairs" \in DOMAIN resp.text.data
                                 THEN resp.text.data.stat_status_pairs ELSE << >>
                    IN  Done(slot, Reply(200,
                            [items |-> RestFilter(MapSeq(RestItem, pairs), slot.in.q)],
                            << >>))]
    /\ UNCHANGED <<sessions, nextSid, jar, client>>

\* ------------------------------------------------------------ GET /api/problem/:slug
Problem(r, b, slugParam) ==
    /\ req[r].pc = "idle"
    /\ LET session == getSession(jar[b])
           slug == TrimStr(slugParam)
           start == Slot("idle", "problem", b, jar[b], NullRec, [slug |-> slug],
                         NullRec, << >>, NullRec)
       IN  req' = [req EXCEPT ![r] =
               IF session = NullRec THEN Done(start, NotAuthenticated)
               ELSE IF slug = ""
               THEN Done(start, Reply(400, [error |-> "SLUG_REQUIRED"], << >>))
               ELSE StartQuestion([start EXCEPT !.session = View(session)],
                                  "main", View(session), slug, NullRec)]
    /\ UNCHANGED <<sessions, nextSid, jar, client>>

\* Lines 565-568: fill the localized fields from the secondary domain's question.
Or3(a, b, c) == IF Truthy(a) THEN a ELSE IF Truthy(b) THEN b ELSE c

CnFillQuestion(q, cnQ) ==
    [q EXCEPT !.translated_title =
                  Or3(cnQ.translated_title, cnQ.title, q.translated_title),
              !.translated_content =
                  Or3(cnQ.translated_content, cnQ.content, q.translated_content)]

\* The enrichment lookup with the acting session pointed at the secondary
\* domain.
EnrichQuestionAsUser(slot, q) ==
    StartQuestion(slot, "cn", [slot.session EXCEPT !.domain = "leetcode.cn"],
                  slot.in.slug, q)

\* The enrichment lookup: lcQuestion on the secondary domain with cnSession.
EnrichQuestion(slot, q) == StartQuestion(slot, "cn", cnSession, slot.in.slug, q)

\* The handler from the point where lcQuestion has returned resp.
ProblemAfterQuestion(slot, resp) ==
    IF slot.loc.phase = "main"
    THEN IF ~resp.ok
         THEN Done(slot, Reply(502, [error |-> "UPSTREAM_ERROR", detail |-> resp], << >>))
         ELSE LET q == Field(resp.data, "question")
              IN  IF q = NullRec
                  THEN Done(slot, Reply(404, [error |-> "NOT_FOUND"], << >>))
                  ELSE LET missingZh == ~Truthy(q.translated_title)
                                        /\ ~Truthy(q.translated_content)
                           isCom == EndsWith(LowerStr(slot.session.domain), "leetcode.com")
                       IN  IF isCom /\ missingZh
                           THEN EnrichQuestion(slot, q)
                           ELSE Done(slot, Reply(200, [question |-> q], << >>))
    ELSE LET q == slot.loc.keep
             cnQ == IF resp.ok THEN Field(resp.data, "question") ELSE NullRec
         IN  Done(slot, Reply(200, [question |-> IF cnQ # NullRec
                                                 THEN CnFillQuestion(q, cnQ) ELSE q],
                              << >>))

\* ------------------------------------------------------------ POST /api/submit
SubmitPath(titleSlug) == <<"/problems/", titleSlug, "/submit/">>

\* The request half of lcSubmit.
lcSubmitSend(session, titleSlug, questionId, lang, typedCode) ==
    lcFetch(session, SubmitPath(titleSlug),
            [lang |-> lang, question_id |-> questionId, typed_code |-> typedCode])

StartSubmit(slot, questionId) ==
    Send([slot EXCEPT !.pc = "submit_wait"],
         lcSubmitSend(slot.session, slot.in.slug, questionId, slot.in.lang, slot.in.code))

Submit(r, b, body) ==
    /\ req[r].pc = "idle"
    /\ LET session == getSession(jar[b])
           titleSlug == TrimStr(body.slug)
           lang == TrimStr(body.lang)
           typedCode == body.code
           questionId == IF body.questionId \in {"null", "undefined"} THEN body.questionId
                         ELSE JsString(body.questionId)
           start == Slot("idle", "submit", b, jar[b], NullRec,
                         [slug |-> titleSlug, lang |-> lang, code |-> typedCode,
                          questionId |-> questionId],
                         NullRec, << >>, NullRec)
           bad(error) == Done(start, Reply(400, [error |-> error], << >>))
       IN  req' = [req EXCEPT ![r] =
               IF session = NullRec THEN Done(start, NotAuthenticated)
               ELSE IF titleSlug = "" THEN bad("SLUG_REQUIRED")
               ELSE IF lang = "" THEN bad("LANG_REQUIRED")
               ELSE IF typedCode = "" THEN bad("CODE_REQUIRED")
               ELSE LET s0 == [start EXCEPT !.session = View(session)]
                    IN  IF ~Truthy(questionId)
                        THEN StartQuestion(s0, "submit", View(session), titleSlug, NullRec)
                        ELSE StartSubmit(s0, questionId)]
    /\ UNCHANGED <<sessions, nextSid, jar, client>>

UpstreamError(extra) == Reply(502, [error |-> "UPSTREAM_ERROR"] @@ extra, << >>)

\* The handler from the point where lcQuestion has returned q.
SubmitAfterQuestion(slot, q) ==
    IF ~q.ok THEN Done(slot, UpstreamError([detail |-> q]))
    ELSE LET questionId == Prop(Field(q.data, "question"), "id")
         IN  IF ~Truthy(questionId)
             THEN Done(slot, UpstreamError([message |-> "Missing questionId"]))
             ELSE StartSubmit(slot, questionId)

AfterQuestion(slot, result) ==
    IF slot.kind = "submit" THEN SubmitAfterQuestion(slot, result)
    ELSE ProblemAfterQuestion(slot, result)

\* lcQuestion that sends its first query again when it failed.
lcQuestionFirstRetrying(r, resp) ==
    /\ req[r].pc = "question_first"
    /\ LET slot == Answered(req[r], resp)
           first == lcGraphql(resp)
       IN  req' = [req EXCEPT ![r] =
               IF first.threw THEN Thrown(slot)
               ELSE IF first.ok THEN AfterQuestion(slot, first)
               ELSE Send(slot, lcGraphqlSend(slot.loc.using, QUERY_QUESTION,
                                             slot.loc.variables))]
    /\ UNCHANGED <<sessions, nextSid, jar, client>>

lcQuestionFirst(r, resp) ==
    /\ req[r].pc = "question_first"
    /\ LET slot == Answered(req[r], resp)
           first == lcGraphql(resp)
       IN  req' = [req EXCEPT ![r] =
               IF first.threw THEN Thrown(slot)
               ELSE IF first.ok THEN AfterQuestion(slot, first)
               ELSE Send([slot EXCEPT !.pc = "question_second", !.loc.first = first],
                         lcGraphqlSend(slot.loc.using, QUERY_QUESTION_TITLECN,
                                       slot.loc.variables))]
    /\ UNCHANGED <<sessions, nextSid, jar, client>>

lcQuestionSecond(r, resp) ==
    /\ req[r].pc = "question_second"
    /\ LET slot == Answered(req[r], resp)
           second == lcGraphql(resp)
       IN  req' = [req EXCEPT ![r] =
               IF second.threw THEN Thrown(slot)
               ELSE AfterQuestion(slot, lcQuestionReturn(slot.loc.first, second))]
    /\ UNCHANGED <<sessions, nextSid, jar, client>>

\* The result half of lcSubmit and of lcSubmissionCheck: the body text is
\* read with .catch(() => ''), and json stays null when it does not parse.
JsonOf(resp) == IF resp.text.parse = "obj" THEN resp.text.data ELSE NullRec

lcSubmit(resp) ==
    IF ~resp.net THEN Threw
    ELSE IF ~HttpOk(resp.status)
    THEN GqlFail(resp.status, "HTTP_ERROR", resp.text)
    ELSE LET json == JsonOf(resp)
             submissionId == Coalesce(Prop(json, "submission_id"),
                                      Prop(json, "submissionId"))
         IN  IF ~Truthy(submissionId)
             THEN GqlFail(resp.status, "NO_SUBMISSION_ID", resp.text)
             ELSE [threw |-> FALSE, ok |-> TRUE, status |-> resp.status,
                   submissionId |-> JsNumber(submissionId)]

SubmitResume(r, resp) ==
    /\ req[r].pc = "submit_wait"
    /\ LET slot == Answered(req[r], resp)
           submit == lcSubmit(resp)
       IN  req' = [req EXCEPT ![r] =
               IF submit.threw THEN Thrown(slot)
               ELSE IF ~submit.ok THEN Done(slot, UpstreamError([detail |-> submit]))
               ELSE Done(slot, Reply(200, [submissionId |-> submit.submissionId], << >>))]
    /\ UNCHANGED <<sessions, nextSid, jar, client>>

\* ------------------------------------------------------------ GET /api/submission/:id/check
CheckPath(submissionId) == <<"/submissions/detail/", submissionId, "/check/">>

\* lcSubmissionCheck that hands on the snapshot's state only.
lcSubmissionCheckState(resp) ==
    IF ~resp.net THEN Threw
    ELSE IF ~HttpOk(resp.status)
    THEN GqlFail(resp.status, "HTTP_ERROR", resp.text)
    ELSE [threw |-> FALSE, ok |-> TRUE, status |-> resp.status,
          data |-> IF JsonOf(resp) = NullRec THEN NullRec
                   ELSE [state |-> JsonOf(resp).state]]

lcSubmissionCheck(resp) ==
    IF ~resp.net THEN Threw
    ELSE IF ~HttpOk(resp.status)
    THEN GqlFail(resp.status, "HTTP_ERROR", resp.text)
    ELSE [threw |-> FALSE, ok |-> TRUE, status |-> resp.status, data |-> JsonOf(resp)]

\* Number(req.params.id) is finite and positive.
ValidSubmissionId(id) == JsNumber(id) \in {"#1", "#50"}

\* The handler without its `if (!session) return`.
CheckUnguarded(r, b, idParam, slugQuery) ==
    /\ req[r].pc = "idle"
    /\ LET session == getSession(jar[b])
           start == Slot("idle", "check", b, jar[b], NullRec,
                         [id |-> idParam, slug |-> TrimStr(slugQuery)],
                         NullRec, << >>, NullRec)
       IN  req' = [req EXCEPT ![r] =
               IF ~ValidSubmissionId(idParam)
               THEN Done(start, Reply(400, [error |-> "INVALID_SUBMISSION_ID"], << >>))
               ELSE Send([start EXCEPT !.pc = "check_wait", !.session = session],
                         lcFetch(session, CheckPath(JsNumber(idParam)), NullRec))]
    /\ UNCHANGED <<sessions, nextSid, jar, client>>

Check(r, b, idParam, slugQuery) ==
    /\ req[r].pc = "idle"
    /\ LET session == getSession(jar[b])
           start == Slot("idle", "check", b, jar[b], NullRec,
                         [id |-> idParam, slug |-> TrimStr(slugQuery)],
                         NullRec, << >>, NullRec)
       IN  req' = [req EXCEPT ![r] =
               IF session = NullRec THEN Done(start, NotAuthenticated)
               ELSE IF ~ValidSubmissionId(idParam)
               THEN Done(start, Reply(400, [error |-> "INVALID_SUBMISSION_ID"], << >>))
               ELSE Send([start EXCEPT !.pc = "check_wait", !.session = View(session)],
                         lcFetch(View(session), CheckPath(JsNumber(idParam)), NullRec))]
    /\ UNCHANGED <<sessions, nextSid, jar, client>>

\* The handler treating an upstream failure as the session's expiry, as
\* GET /api/auth/me does.
CheckResumeExpiring(r, resp) ==
    /\ req[r].pc = "check_wait"
    /\ LET slot == Answered(req[r], resp)
           check == lcSubmissionCheck(resp)
       IN  IF check.threw
           THEN req' = [req EXCEPT ![r] = Thrown(slot)] /\ UNCHANGED sessions
           ELSE IF ~check.ok
           THEN /\ req' = [req EXCEPT ![r] =
                        Done(slot, Reply(401, [error |-> "NOT_AUTHENTICATED"],
                                         <<ClearCookie>>))]
                /\ sessions' = clearSession(sessions, slot.sid)
           ELSE /\ req' = [req EXCEPT ![r] =
                        Done(slot, Reply(200, [submission |-> check.data], << >>))]
                /\ UNCHANGED sessions
    /\ UNCHANGED <<nextSid, jar, client>>

CheckResume(r, resp) ==
    /\ req[r].pc = "check_wait"
    /\ LET slot == Answered(req[r], resp)
           check == lcSubmissionCheck(resp)
       IN  req' = [req EXCEPT ![r] =
               IF check.threw THEN Thrown(slot)
               ELSE IF ~check.ok THEN Done(slot, UpstreamError([detail |-> check]))
               ELSE Done(slot, Reply(200, [submission |-> check.data], << >>))]
    /\ UNCHANGED <<sessions, nextSid, jar, client>>

\* ------------------------------------------------------------ the browser
ApplyCookies(c, ops) ==
    IF ops = << >> THEN c
    ELSE LET last == ops[Len(ops)]
         IN  IF last.op = "set" THEN last.sid ELSE NoSid

\* The browser takes the response (its Set-Cookie headers in order); a
\* request whose handler threw ends without one.
Receive(r) ==
    /\ req[r].pc \in {"done", "thrown"}
    /\ jar' = IF req[r].pc = "done"
              THEN [jar EXCEPT ![req[r].b] = ApplyCookies(@, req[r].res.setCookie)]
              ELSE jar
    /\ req' = [req EXCEPT ![r] = Idle]
    /\ UNCHANGED <<sessions, nextSid, client>>

\* The response never reaches the browser (the connection dropped, the tab
\* was closed): its cookie jar stays as it was.
Lose(r) ==
    /\ req[r].pc \in {"done", "thrown"}
    /\ req' = [req EXCEPT ![r] = Idle]
    /\ UNCHANGED <<sessions, nextSid, jar, client>>

\* ------------------------------------------------------------ inputs
CSRF == Seg(FALSE, "csrftoken", "abc")
LCS == Seg(TRUE, "LEETCODE_SESSION", "abc")

\* Pasted cookies of the main specification.
SampleCookies == { <<CSRF, LCS>>, <<CSRF>>, << >> }

SampleDomains == {"", "leetcode.cn"}

\* Bodies of POST /api/auth/cookie of the main specification.
SampleSignIns == {[cookie |-> c, domain |-> d] : c \in SampleCookies, d \in SampleDomains}

\* userStatus as the upstream answers the query sent.
RawUser(query, signedIn, verified) ==
    IF query = QUERY_USER_CN
    THEN [id |-> "undefined", name |-> "ann", is_signed_in |-> signedIn,
          is_premium |-> "false", is_verified |-> verified, session_id |-> "undefined",
          slug |-> "ann", real_name |-> "null"]
    ELSE [id |-> "7", name |-> "ann", is_signed_in |-> signedIn,
          is_premium |-> "false", is_verified |-> verified, session_id |-> "55",
          slug |-> "undefined", real_name |-> "undefined"]

SampleUsers(query) ==
    {RawUser(query, "false", "null"),
     RawUser(query, "true", "false"), RawUser(query, "true", "null")}

\* Upstream answers to a user-status query of the main specification.
SampleUserAnswers ==
    {NetError, HttpResp(403, BadText)}
    \cup {HttpResp(200, Json(FALSE, [userStatus |-> u])) :
            u \in SampleUsers(QUERY_USER_COM) \cup SampleUsers(QUERY_USER_CN)}

\* The inputs of the specification with requests in flight at once: a good
\* cookie for the primary domain; the call fails, a failure result, a
\* signed-in user.
FewSignIns == {[cookie |-> <<CSRF, LCS>>, domain |-> ""]}

FewUserAnswers ==
    {NetError, HttpResp(403, BadText),
     HttpResp(200, Json(FALSE, [userStatus |-> RawUser(QUERY_USER_COM, "true", "false")]))}

\* Answers to a user-status query that do not sign the user in.
FailingUserAnswers ==
    {NetError, HttpResp(403, BadText),
     HttpResp(200, Json(FALSE, [userStatus |-> RawUser(QUERY_USER_COM, "false", "null")]))}

\* A question node of the catalog as the upstream answers the list query.
RawListItem(slug, zh) ==
    [id |-> "'1'", frontendId |-> "'1'", title |-> "Two Sum", titleZh |-> zh,
     titleSlug |-> slug, paidOnly |-> "false", difficulty |-> "Easy",
     status |-> "null", acRate |-> "#50"]

ListAnswers(lists) ==
    {NetError, HttpResp(403, BadText), HttpResp(401, Json(FALSE, NullRec)),
     HttpResp(200, Json(TRUE, NullRec))}
    \cup {HttpResp(200, Json(FALSE, [problemsetQuestionList |-> [questions |-> l]])) :
            l \in lists}

\* A catalog node with a localized title and the given acRate.
RatedListItem(acRate) == [RawListItem("two-sum", "Liang Shu") EXCEPT !.acRate = acRate]

SampleListAnswers ==
    ListAnswers({<< >>, <<RawListItem("two-sum", "null")>>,
                 <<RawListItem("two-sum", "Liang Shu")>>}
                \cup {<<RatedListItem(a)>> : a \in {"#0", "null", "undefined", "'50'"}})

\* A question as the upstream answers the detail query.
RawQuestion(zhTitle, zhContent) ==
    [id |-> "'1'", title |-> "Two Sum", translated_title |-> zhTitle,
     title_slug |-> "two-sum", content |-> "<p>en</p>",
     translated_content |-> zhContent]

QuestionAnswers(questions) ==
    {NetError, HttpResp(403, BadText), HttpResp(401, Json(FALSE, NullRec)),
     HttpResp(200, NullJson), HttpResp(200, Json(TRUE, NullRec))}
    \cup {HttpResp(200, Json(FALSE, [question |-> q])) : q \in questions}

SampleQuestionAnswers ==
    QuestionAnswers({NullRec, RawQuestion("null", "null"),
                     RawQuestion("Liang Shu", "<p>zh</p>")})

RawPair(acs, submitted) ==
    [stat |-> [question_id |-> "#1", frontend_question_id |-> "#1",
               question__title |-> "Two Sum", question__title_slug |-> "two-sum",
               total_acs |-> acs, total_submitted |-> submitted],
     difficulty |-> [level |-> "#1"], paid_only |-> "false", status |-> "null"]

\* Catalogs of the REST endpoint: one problem with every combination of an
\* accepted count and a submitted count (missing, null, zero, positive), and
\* a catalog of two problems.
RestCatalogs ==
    {<<RawPair(a, n)>> : a \in {"undefined", "#0", "#1", "#2"},
                         n \in {"undefined", "null", "#0", "'0'", "#2"}}
    \cup {<<RawPair("#1", "#0"), RawPair("#1", "#2")>>}

SampleRestAnswers ==
    {NetError, HttpResp(403, BadText), HttpResp(401, Json(FALSE, NullRec)),
     HttpResp(200, BadText)}
    \cup {HttpResp(200, Json(FALSE, [stat_status_pairs |-> l])) : l \in RestCatalogs}

SampleSubmitAnswers ==
    {NetError, HttpResp(403, BadText), HttpResp(401, Json(FALSE, NullRec)),
     HttpResp(200, Json(FALSE, [none |-> TRUE])),
     HttpResp(200, Json(FALSE, [submission_id |-> "#50"]))}

SampleCheckAnswers ==
    {NetError, HttpResp(403, BadText), HttpResp(401, Json(FALSE, NullRec)),
     HttpResp(200, BadText),
     HttpResp(200, Json(FALSE, [state |-> "PENDING"])),
     HttpResp(200, Json(FALSE, [state |-> "STARTED"])),
     HttpResp(200, Json(FALSE, [state |-> "SUCCESS", status_msg |-> "Accepted",
                                status_runtime |-> "52 ms"])),
     HttpResp(200, Json(FALSE, [state |-> "SUCCESS", status_msg |-> "Wrong Answer",
                                status_runtime |-> "N/A"]))}

SampleListQueries ==
    {[q |-> q, category |-> "", lang |-> l] :
        q \in {"", "two"}, l \in {"", "zh", "ZH-CN", "en"}}

SampleSubmitBodies ==
    {[slug |-> "two-sum", lang |-> l, code |-> "x", questionId |-> i] :
        l \in {"", "python3"}, i \in {"undefined", "#1"}}

\* ---- inputs of the localization fill-in
\* The longest catalog the upstream answers with.
MaxItems == 2

\* Catalog nodes: two slugs and a node without one; no localized title, the
\* primary domain's, the secondary domain's.
FillItems ==
    {RawListItem(slug, zh) : slug \in {"two-sum", "add-two"}, zh \in {"null", "Zh", "Cn"}}
    \cup {RawListItem("", "Cn")}

FillLists == UNION {[1..n -> FillItems] : n \in 0..MaxItems}

\* Answers to the list query that the first query shape gets.
FillListAnswers ==
    {HttpResp(200, Json(FALSE, [problemsetQuestionList |-> [questions |-> l]])) :
        l \in FillLists}

FillListQueries == {[q |-> "", category |-> "", lang |-> "zh"]}

\* A question as either domain answers the detail query.
FillQuestion(title, zhTitle, content, zhContent) ==
    [id |-> "'1'", title |-> title, translated_title |-> zhTitle,
     title_slug |-> "two-sum", content |-> content,
     translated_content |-> zhContent]

FillQuestions ==
    {FillQuestion(t, zt, c, zc) :
        t \in {"Two Sum", ""}, zt \in {"null", "", "Zh", "Cn"},
        c \in {"<p>en</p>", "null"}, zc \in {"null", "<p>zh</p>", "<p>cn</p>"}}

FillQuestionAnswers ==
    {HttpResp(200, Json(FALSE, [question |-> q])) : q \in FillQuestions \cup {NullRec}}

\* The upstream reports a signed-in, verified user.
SignedInAnswers ==
    {HttpResp(200, Json(FALSE, [userStatus |-> RawUser(QUERY_USER_COM, "true", "true")]))}

\* Every cookie string of at most MaxSegs segments over a few names and
\* values: the two tokens, a token in other case, a name that only ends
\* with a token's, blank segments, empty and blank values.
CookieSegments ==
    {Seg(FALSE, n, v) : n \in {"csrftoken", "CSRFTOKEN", "LEETCODE_SESSION", "xcsrftoken"},
                        v \in {"", " ", "abc"}}
    \cup {LCS, Seg(FALSE, "", ""), Seg(TRUE, "", "")}

AllCookies == UNION {[1..n -> CookieSegments] : n \in 0..MaxSegs}

AllDomains ==
    {"", "  ", "leetcode.com", " leetcode.cn ", "LeetCode.CN",
     "notleetcode.com", "evil.example"}

\* Sign-in bodies with every cookie string and the default domain, and with
\* every domain and the sample cookies.
AllCookieSignIns == {[cookie |-> c, domain |-> ""] : c \in AllCookies}
AllDomainSignIns == {[cookie |-> c, domain |-> d] : c \in SampleCookies, d \in AllDomains}

\* userStatus payloads with every kind of JSON scalar in the two flags.
AllRawUsers ==
    {RawUser(q, s, v) :
        q \in {QUERY_USER_COM, QUERY_USER_CN},
        s \in {"true", "false", "null", "undefined", "#1"},
        v \in {"true", "false", "null", "undefined", "#0"}}

AllUserAnswers ==
    {NetError, HttpResp(403, BadText), HttpResp(403, Json(FALSE, NullRec)),
     HttpResp(403, NullJson), HttpResp(200, BadText), HttpResp(200, NullJson),
     HttpResp(200, Json(TRUE, NullRec)), HttpResp(200, Json(FALSE, NullRec)),
     HttpResp(200, Json(FALSE, [userStatus |-> NullRec]))}
    \cup {HttpResp(200, Json(FALSE, [userStatus |-> u])) : u \in AllRawUsers}

\* ------------------------------------------------------------ the page (src/src/App.vue)
\* The page's calls to /api/problem, /api/submit and /api/submission/:id/check
\* are answered by the handlers above; here an answer is an input: the call
\* succeeds with a payload or api() throws.
\* Submissions the server accepts.
MaxSub == 2
\* Calls of one kind the page has in flight at once.
MaxFlight == 2
\* Timers setInterval creates.
MaxTimer == 2

\* submissionId.value = null
NoSub == 0
\* pollTimer = null
NoTimer == 0
NoSlug == "null"

Slugs == {"two-sum"}
\* question.code_snippets of the loaded question: lang_slug -> code.
Snippets == [typescript |-> "code", python3 |-> ""]
Langs == DOMAIN Snippets
CheckStates == {"PENDING", "SUCCESS", "success"}
ApiThrows == [ok |-> FALSE, submission |-> NullRec]
CheckResults ==
    {[ok |-> TRUE, submission |-> [state |-> st]] : st \in CheckStates}
    \cup {ApiThrows}

toUpperCase(s) ==
    CASE s = "success" -> "SUCCESS"
      [] OTHER -> s

\* The refs and `let pollTimer` after setup; nothing is in flight.
\* `timers` are the intervals of the window that run, `nextTimer` and
\* `nextSub` count the ids setInterval and the server have handed out.
\* `pcSubmit` is where submitSolution stands ("idle", "submit": awaiting
\* /api/submit, "poll": awaiting its own pollSubmission), `polls` the checks
\* in flight that a timer tick started, per submission id, `details` the
\* /api/problem calls in flight.  `sinceReset` is history: no call to
\* /api/submit has been made since the last resetSubmissionState.  `judged`
\* and `late` are history too: the submissions a check has answered SUCCESS
\* for, and those with a check in flight that a tick may have started after
\* such an answer.
ClientInit ==
    [selectedSlug |-> NoSlug, question |-> NoSlug,
     questionError |-> FALSE, questionLoading |-> FALSE,
     langSlug |-> "", typedCode |-> "",
     submitLoading |-> FALSE, submitError |-> "null",
     submissionId |-> NoSub, submission |-> NullRec,
     pollTimer |-> NoTimer, timers |-> {}, nextTimer |-> 0,
     nextSub |-> 0, pcSubmit |-> "idle", awaited |-> NoSub,
     polls |-> [s \in 1..MaxSub |-> 0], details |-> 0,
     sinceReset |-> TRUE, judged |-> {}, late |-> {}]

\* The checks in flight that ticks started.
InFlight(c) ==
    LET upTo[n \in 0..MaxSub] == IF n = 0 THEN 0 ELSE upTo[n - 1] + c.polls[n]
    IN  upTo[MaxSub]

\* window.clearInterval(pollTimer); pollTimer = null
clearPollTimer(c) ==
    IF c.pollTimer # NoTimer
    THEN [c EXCEPT !.timers = @ \ {c.pollTimer}, !.pollTimer = NoTimer]
    ELSE c

\* A start of the poll timer that does not look at pollTimer.
startPollTimerAnyway(c) ==
    [c EXCEPT !.pollTimer = c.nextTimer + 1,
              !.timers = @ \cup {c.nextTimer + 1},
              !.nextTimer = @ + 1]

\* if (pollTimer == null) pollTimer = window.setInterval(pollSubmission, 1000)
startPollTimer(c) ==
    IF c.pollTimer = NoTimer
    THEN [c EXCEPT !.pollTimer = c.nextTimer + 1,
                   !.timers = @ \cup {c.nextTimer + 1},
                   !.nextTimer = @ + 1]
    ELSE c

resetSubmissionState(c) ==
    clearPollTimer([c EXCEPT !.submitError = "null", !.submissionId = NoSub,
                             !.submission = NullRec, !.sinceReset = TRUE])

\* History: the answer to a check for `sub` is taken.
noteAnswer(c, sub, result) ==
    IF result.ok /\ toUpperCase(result.submission.state) = "SUCCESS"
    THEN [c EXCEPT !.judged = @ \cup {sub}]
    ELSE c

\* pollSubmission from the first statement up to its await: does it call?
pollCalls(c) == c.submissionId # NoSub /\ c.selectedSlug # NoSlug

\* pollSubmission after its await: the snapshot is stored, or the error.
\* The timer is cleared on SUCCESS and on a throw.
pollSubmissionResume(c, result) ==
    IF result.ok
    THEN LET shown == [c EXCEPT !.submission = result.submission]
         IN  IF toUpperCase(result.submission.state) = "SUCCESS"
             THEN clearPollTimer(shown)
             ELSE shown
    ELSE clearPollTimer([c EXCEPT !.submitError = "CHECK_FAILED"])

\* submitSolution after `await pollSubmission()`, its finally included.
submitSolutionEnd(c) ==
    [startPollTimer(c) EXCEPT !.submitLoading = FALSE, !.pcSubmit = "idle",
                              !.awaited = NoSub]

\* The question panel with the language select and the submit button is
\* rendered (template lines 454-476).
QuestionShown(c) ==
    /\ c.selectedSlug # NoSlug
    /\ ~c.questionLoading
    /\ ~c.questionError
    /\ c.question # NoSlug

\* A click on a row of the list, which is rendered while no problem is
\* selected.
openProblem(slug) ==
    /\ client.selectedSlug = NoSlug
    /\ client.details < MaxFlight
    /\ client' = resetSubmissionState(
            [client EXCEPT !.selectedSlug = slug, !.question = NoSlug,
                           !.questionError = FALSE, !.questionLoading = TRUE,
                           !.details = @ + 1])
    /\ UNCHANGED <<sessions, nextSid, jar, req>>

\* openProblem after its await: the question and the preferred snippet
\* (typescript comes first), or the error.
openProblemResume(ok) ==
    /\ client.details > 0
    /\ client' =
        IF ok
        THEN [client EXCEPT !.details = @ - 1, !.questionLoading = FALSE,
                            !.question = "two-sum",
                            !.langSlug = "typescript",
                            !.typedCode = Snippets["typescript"]]
        ELSE [client EXCEPT !.details = @ - 1, !.questionLoading = FALSE,
                            !.questionError = TRUE]
    /\ UNCHANGED <<sessions, nextSid, jar, req>>

backToList ==
    /\ client.selectedSlug # NoSlug
    /\ client' = resetSubmissionState(
            [client EXCEPT !.selectedSlug = NoSlug, !.question = NoSlug,
                           !.questionError = FALSE,
                           !.langSlug = "", !.typedCode = ""])
    /\ UNCHANGED <<sessions, nextSid, jar, req>>

selectLang(next) ==
    /\ QuestionShown(client)
    /\ client' = resetSubmissionState(
            [client EXCEPT !.langSlug = next, !.typedCode = Snippets[next]])
    /\ UNCHANGED <<sessions, nextSid, jar, req>>

\* A click on the submit button, which is enabled unless submitLoading or
\* no language: submitSolution up to its first await.
submitSolution ==
    /\ QuestionShown(client)
    /\ ~client.submitLoading
    /\ client.langSlug # ""
    /\ client.nextSub < MaxSub
    /\ client.nextTimer < MaxTimer
    /\ client' =
        IF client.typedCode = ""
        THEN [client EXCEPT !.submitError = "CODE_EMPTY"]
        ELSE [client EXCEPT !.submitLoading = TRUE, !.submitError = "null",
                            !.submission = NullRec, !.submissionId = NoSub,
                            !.pcSubmit = "submit", !.sinceReset = FALSE]
    /\ UNCHANGED <<sessions, nextSid, jar, req>>

\* submitSolution after `await api('/api/submit')`: the id is stored and
\* pollSubmission is called; when that returns without a call, the rest of
\* submitSolution follows at once.
submitSolutionResume(ok) ==
    /\ client.pcSubmit = "submit"
    /\ client' =
        IF ~ok
        THEN [client EXCEPT !.submitError = "SUBMIT_FAILED",
                            !.submitLoading = FALSE, !.pcSubmit = "idle"]
        ELSE LET got == [client EXCEPT !.submissionId = client.nextSub + 1,
                                       !.nextSub = @ + 1]
             IN  IF pollCalls(got)
                 THEN [got EXCEPT !.pcSubmit = "poll",
                                  !.awaited = got.submissionId]
                 ELSE submitSolutionEnd(got)
    /\ UNCHANGED <<sessions, nextSid, jar, req>>

\* The check that submitSolution awaits is answered: pollSubmission
\* finishes and submitSolution runs to its end.
awaitedPollResume(result) ==
    /\ client.pcSubmit = "poll"
    /\ client' = submitSolutionEnd(pollSubmissionResume(
            noteAnswer(client, client.awaited, result), result))
    /\ UNCHANGED <<sessions, nextSid, jar, req>>

\* A running interval fires: pollSubmission up to its await.
pollTick ==
    /\ client.timers # {}
    /\ InFlight(client) < MaxFlight
    /\ client' =
        IF pollCalls(client)
        THEN [client EXCEPT !.polls[client.submissionId] = @ + 1,
                            !.late = IF client.submissionId \in client.judged
                                     THEN @ \cup {client.submissionId}
                                     ELSE @]
        ELSE client
    /\ UNCHANGED <<sessions, nextSid, jar, req>>

\* A check that a tick started is answered.
pollResume(sub, result) ==
    /\ client.polls[sub] > 0
    /\ client' = pollSubmissionResume(
            noteAnswer([client EXCEPT !.polls[sub] = @ - 1,
                                      !.late = IF client.polls[sub] = 1
                                               THEN @ \ {sub} ELSE @],
                       sub, result),
            result)
    /\ UNCHANGED <<sessions, nextSid, jar, req>>

\* ------------------------------------------------------------ specifications
\* The state after construction: no session, no request; a browser may
\* still hold an lc_sid cookie from an earlier run of the process.
InitWith(slots) ==
    /\ sessions = << >>
    /\ nextSid = 0
    /\ jar \in [Browsers -> {NoSid, StaleSid}]
    /\ req = [r \in slots |-> Idle]
    /\ client = ClientInit

AuthStep(r, signIns, userAnswers) ==
    \/ \E b \in Browsers, body \in signIns : AuthCookie(r, b, body)
    \/ \E resp \in userAnswers : AuthCookieResume(r, resp)
    \/ \E b \in Browsers : Me(r, b)
    \/ \E resp \in userAnswers : MeResume(r, resp)
    \/ \E b \in Browsers : Logout(r, b)
    \/ Receive(r)
    \/ Lose(r)

DataStep(r) ==
    \/ \E b \in Browsers, query \in SampleListQueries : Problems(r, b, query)
    \/ \E resp \in SampleListAnswers : lcProblemsetQuestionListFirst(r, resp)
    \/ \E resp \in SampleListAnswers : lcProblemsetQuestionListSecond(r, resp)
    \/ \E resp \in SampleRestAnswers : ProblemsRest(r, resp)
    \/ \E b \in Browsers, slug \in {"two-sum", "  "} : Problem(r, b, slug)
    \/ \E b \in Browsers, body \in SampleSubmitBodies : Submit(r, b, body)
    \/ \E resp \in SampleQuestionAnswers : lcQuestionFirst(r, resp)
    \/ \E resp \in SampleQuestionAnswers : lcQuestionSecond(r, resp)
    \/ \E resp \in SampleSubmitAnswers : SubmitResume(r, resp)
    \/ \E b \in Browsers, id \in {"'1'", "abc"} : Check(r, b, id, "")
    \/ \E resp \in SampleCheckAnswers : CheckResume(r, resp)

\* The whole proxy, serving one request after another.
Init == InitWith({1})
Next == \E r \in {1} : AuthStep(r, SampleSignIns, SampleUserAnswers) \/ DataStep(r)
Spec == Init /\ [][Next]_vars

\* The session endpoints (sign-in, /me, logout) with MaxReq requests in
\* flight at once, interleaved at their awaits.
InitAuth == InitWith(1..MaxReq)
NextAuth == \E r \in 1..MaxReq : AuthStep(r, FewSignIns, FewUserAnswers)
SpecAuth == InitAuth /\ [][NextAuth]_vars

\* One sign-in request at a time, over every cookie string of AllCookies;
\* the upstream never reports a signed-in user, so no session is stored.
InitCookie == InitWith({1})
NextCookie ==
    \E r \in {1} :
        \/ \E b \in Browsers, body \in AllCookieSignIns : AuthCookie(r, b, body)
        \/ \E resp \in FailingUserAnswers : AuthCookieResume(r, resp)
        \/ Receive(r)
SpecCookie == InitCookie /\ [][NextCookie]_vars

\* One sign-in request at a time, over every domain of AllDomains and
\* every upstream answer of AllUserAnswers.
InitSignIn == InitWith({1})
NextSignIn ==
    \E r \in {1} :
        \/ \E b \in Browsers, body \in AllDomainSignIns : AuthCookie(r, b, body)
        \/ \E resp \in AllUserAnswers : AuthCookieResume(r, resp)
        \/ Receive(r)
        \/ Lose(r)
SpecSignIn == InitSignIn /\ [][NextSignIn]_vars

\* A browser signed in on the primary domain asks for the localized catalog
\* and for a problem's detail; the upstream answers every lookup at the
\* first query shape, with every catalog of FillLists and every question
\* of FillQuestions.
InitFill == InitWith({1})
NextFill ==
    \E r \in {1} :
        \/ \E b \in Browsers, body \in FewSignIns : AuthCookie(r, b, body)
        \/ \E resp \in SignedInAnswers : AuthCookieResume(r, resp)
        \/ \E b \in Browsers, query \in FillListQueries : Problems(r, b, query)
        \/ \E resp \in FillListAnswers : lcProblemsetQuestionListFirst(r, resp)
        \/ \E resp \in SampleRestAnswers : ProblemsRest(r, resp)
        \/ \E b \in Browsers, slug \in {"two-sum"} : Problem(r, b, slug)
        \/ \E resp \in FillQuestionAnswers : lcQuestionFirst(r, resp)
        \/ Receive(r)
SpecFill == InitFill /\ [][NextFill]_vars

\* The session endpoints with MaxReq requests of one browser in flight at
\* once, and every response reaching the browser.
InitRace == InitWith(1..MaxReq)
NextRace ==
    \E r \in 1..MaxReq :
        \/ \E b \in Browsers, body \in FewSignIns : AuthCookie(r, b, body)
        \/ \E resp \in FewUserAnswers : AuthCookieResume(r, resp)
        \/ \E b \in Browsers : Me(r, b)
        \/ \E resp \in FewUserAnswers : MeResume(r, resp)
        \/ \E b \in Browsers : Logout(r, b)
        \/ Receive(r)
SpecRace == InitRace /\ [][NextRace]_vars

\* The page alone: clicks, timer ticks and the answers to its calls.
InitClient ==
    /\ InitWith({})
    /\ jar = [b \in Browsers |-> NoSid]
NextClient ==
    \/ \E slug \in Slugs : openProblem(slug)
    \/ \E ok \in BOOLEAN : openProblemResume(ok)
    \/ backToList
    \/ \E next \in Langs : selectLang(next)
    \/ submitSolution
    \/ \E ok \in BOOLEAN : submitSolutionResume(ok)
    \/ \E result \in CheckResults : awaitedPollResume(result)
    \/ pollTick
    \/ \E sub \in 1..MaxSub, result \in CheckResults : pollResume(sub, result)
SpecClient == InitClient /\ [][NextClient]_vars

\* ------------------------------------------------------------ properties
\* Reading the log of upstream exchanges of a request.
QueryOf(x) == IF "query" \in DOMAIN x.request.body THEN x.request.body.query ELSE "none"
Failed(x) ==
    /\ x.answer # NullRec
    /\ ~lcGraphql(x.answer).threw
    /\ ~lcGraphql(x.answer).ok
Succeeded(x) == x.answer # NullRec /\ lcGraphql(x.answer).ok

ShapeA(q) == q \in {QUERY_PROBLEMSET_LIST, QUERY_QUESTION}
ShapeB(q) == q \in {QUERY_PROBLEMSET_LIST_TITLECN, QUERY_QUESTION_TITLECN}
ShapeBOf(q) == IF q = QUERY_PROBLEMSET_LIST THEN QUERY_PROBLEMSET_LIST_TITLECN
               ELSE QUERY_QUESTION_TITLECN

\* The handler's first lookup (exchanges 1 and, after a failure, 2) when the
\* request starts with one.
StartsWithLookup(r) ==
    /\ req[r].pc # "idle"
    /\ req[r].sent # << >>
    /\ ShapeA(QueryOf(req[r].sent[1]))
    /\ req[r].sent[1].answer # NullRec
    /\ ~lcGraphql(req[r].sent[1].answer).threw
LookupLen(r) == IF Succeeded(req[r].sent[1]) THEN 1 ELSE 2
LookupAnswered(r) ==
    /\ StartsWithLookup(r)
    /\ Len(req[r].sent) >= LookupLen(r)
    /\ req[r].sent[LookupLen(r)].answer # NullRec
    /\ ~lcGraphql(req[r].sent[LookupLen(r)].answer).threw
BothFailed(r) ==
    /\ LookupAnswered(r)
    /\ Failed(req[r].sent[1])
    /\ Failed(req[r].sent[2])

\* C1: when both shapes of a lookup fail, the failure the lookup returns (and
\* the handler reports as the 502's detail) is the second attempt's.
C1_BothFailReturnsSecond ==
    \A r \in DOMAIN req :
        (BothFailed(r) /\ req[r].kind \in {"problem", "submit"}) =>
            /\ req[r].pc = "done"
            /\ req[r].res.status = 502
            /\ req[r].res.body.detail = lcGraphql(req[r].sent[2].answer)

\* What the code does instead: the detail is the first attempt's failure.
C1_BothFailReturnsFirst ==
    \A r \in DOMAIN req :
        (BothFailed(r) /\ req[r].kind \in {"problem", "submit"}) =>
            /\ req[r].pc = "done"
            /\ req[r].res.status = 502
            /\ req[r].res.body.detail = lcGraphql(req[r].sent[1].answer)

\* C2: a lookup sends shape A first and shape B only right after A has
\* failed, once, with the same session and variables; when A succeeds no B
\* follows; and what the handler goes on with is the first attempt that
\* succeeded.
C2_Order(r) ==
    LET sent == req[r].sent
    IN  \A i \in 1..Len(sent) :
            /\ ShapeB(QueryOf(sent[i])) =>
                   /\ i > 1
                   /\ ShapeA(QueryOf(sent[i - 1]))
                   /\ QueryOf(sent[i]) = ShapeBOf(QueryOf(sent[i - 1]))
                   /\ Failed(sent[i - 1])
                   /\ sent[i].request =
                          [sent[i - 1].request EXCEPT !.body.query = QueryOf(sent[i])]
            /\ (ShapeA(QueryOf(sent[i])) /\ Failed(sent[i])) =>
                   /\ i < Len(sent)
                   /\ QueryOf(sent[i + 1]) = ShapeBOf(QueryOf(sent[i]))
            /\ (ShapeA(QueryOf(sent[i])) /\ Succeeded(sent[i]) /\ i < Len(sent)) =>
                   ~ShapeB(QueryOf(sent[i + 1]))

C2_Result(r) ==
    LET sent == req[r].sent
        n == LookupLen(r)
        got == lcGraphql(sent[n].answer)
    IN  (LookupAnswered(r) /\ Succeeded(sent[n])) =>
            CASE req[r].kind = "problem" ->
                     LET q == Field(got.data, "question")
                     IN  IF q = NullRec
                         THEN req[r].pc = "done" /\ req[r].res.status = 404
                         ELSE req[r].pc = "done" =>
                                  /\ req[r].res.status = 200
                                  /\ [req[r].res.body.question EXCEPT
                                         !.translated_title = q.translated_title,
                                         !.translated_content = q.translated_content] = q
                                  /\ Len(sent) = n => req[r].res.body.question = q
              [] req[r].kind = "submit" ->
                     LET id == Prop(Field(got.data, "question"), "id")
                     IN  IF Truthy(id)
                         THEN /\ Len(sent) = n + 1
                              /\ sent[n + 1].request.body.question_id = id
                         ELSE req[r].pc = "done" /\ req[r].res.status = 502
              [] req[r].kind = "problems" ->
                     (req[r].pc = "done" /\ Len(sent) = n) =>
                         /\ req[r].res.status = 200
                         /\ req[r].res.body.items = MapSeq(ListItem, QuestionsOf(got))
              [] OTHER -> FALSE

C2_FallbackOrderAndResult ==
    \A r \in DOMAIN req : req[r].pc # "idle" => C2_Order(r) /\ C2_Result(r)

C2_Witness ==
    \E r \in DOMAIN req :
        /\ req[r].pc = "done"
        /\ req[r].kind = "problem"
        /\ LookupAnswered(r)
        /\ Failed(req[r].sent[1])
        /\ Succeeded(req[r].sent[2])
        /\ req[r].res.status = 200

\* A cookie string has a token when some segment is `name=value` with that
\* name (in any case) and a value of at least one character.
HasToken(c, name) ==
    \E i \in 1..Len(c) : LowerStr(c[i].name) = LowerStr(name) /\ c[i].value # ""
LacksToken(c) == ~HasToken(c, "csrftoken") \/ ~HasToken(c, "LEETCODE_SESSION")

\* Nothing but whitespace.
BlankCookie(c) == c = << >> \/ (Len(c) = 1 /\ c[1].name = "")

Rejected(r, status, error) ==
    /\ req[r].pc = "done"
    /\ req[r].res.status = status
    /\ req[r].res.body.error = error
    /\ req[r].res.setCookie = << >>
    /\ req[r].sent = << >>

\* C3 as stated: every sign-in whose cookie string lacks csrftoken or
\* LEETCODE_SESSION is answered 400 COOKIE_INVALID and sends nothing
\* upstream.
C3_LackingTokenIsInvalid ==
    \A r \in DOMAIN req :
        (req[r].pc # "idle" /\ req[r].kind = "auth" /\ LacksToken(req[r].in.cookie)) =>
            Rejected(r, 400, "COOKIE_INVALID")

\* C3 amended: a cookie string that is empty or blank is answered 400
\* COOKIE_REQUIRED; every other cookie string lacking csrftoken or
\* LEETCODE_SESSION is answered 400 COOKIE_INVALID; neither sends anything
\* upstream.
C3_LackingTokenIsRejected ==
    \A r \in DOMAIN req :
        (req[r].pc # "idle" /\ req[r].kind = "auth" /\ LacksToken(req[r].in.cookie)) =>
            IF BlankCookie(req[r].in.cookie)
            THEN Rejected(r, 400, "COOKIE_REQUIRED")
            ELSE Rejected(r, 400, "COOKIE_INVALID")

C3_Witness ==
    \E r \in DOMAIN req :
        /\ req[r].pc = "done"
        /\ req[r].kind = "auth"
        /\ HasToken(req[r].in.cookie, "LEETCODE_SESSION")
        /\ ~HasToken(req[r].in.cookie, "csrftoken")
        /\ req[r].res.body.error = "COOKIE_INVALID"

\* The raw userStatus of the user-status answer of a sign-in.
SignInAnswered(r) ==
    /\ req[r].pc = "done"
    /\ req[r].kind = "auth"
    /\ Len(req[r].sent) = 1
    /\ Succeeded(req[r].sent[1])
UserStatusOf(r) == Field(lcGraphql(req[r].sent[1].answer).data, "userStatus")

\* C4: a sign-in whose user-status query succeeds with a profile that is not
\* signed in (or with none) is answered 401 NOT_SIGNED_IN, and the body
\* carries the normalized profile.
C4_NotSignedInCarriesProfile ==
    \A r \in DOMAIN req :
        (SignInAnswered(r)
         /\ (UserStatusOf(r) = NullRec \/ ~Truthy(UserStatusOf(r).is_signed_in))) =>
            /\ req[r].res.status = 401
            /\ req[r].res.body.error = "NOT_SIGNED_IN"
            /\ req[r].res.setCookie = << >>
            /\ req[r].res.body.user =
                   normalizeUser(req[r].sent[1].request.host, UserStatusOf(r))
            /\ UserStatusOf(r) # NullRec =>
                   /\ req[r].res.body.user.is_signed_in = "false"
                   /\ req[r].res.body.user.name = UserStatusOf(r).name

C4_Witness ==
    \E r \in DOMAIN req :
        /\ SignInAnswered(r)
        /\ UserStatusOf(r) # NullRec
        /\ UserStatusOf(r).is_signed_in = "null"
        /\ req[r].res.body.error = "NOT_SIGNED_IN"
        /\ req[r].res.body.user.is_signed_in = "false"

SupportedDomains == {"leetcode.com", "leetcode.cn"}

\* C9: every stored session's domain is one of the two supported domains
\* (host names compared without regard to case), whatever domain the sign-in
\* request carried, and no upstream request that carries the user's cookie
\* goes to another host.
C9_OnlySupportedDomains ==
    /\ \A s \in DOMAIN sessions : LowerStr(sessions[s].domain) \in SupportedDomains
    /\ \A r \in DOMAIN req :
           req[r].pc # "idle" =>
               \A i \in 1..Len(req[r].sent) :
                   req[r].sent[i].request.cookie # << >> =>
                       LowerStr(req[r].sent[i].request.host) \in SupportedDomains

\* What the code does: the domain stored and used as the upstream host is
\* the request's domain field, trimmed, or leetcode.com when that is empty.
C9_DomainIsTheRequests ==
    \A r \in DOMAIN req :
        (req[r].pc # "idle" /\ req[r].kind = "auth") =>
            \A i \in 1..Len(req[r].sent) :
                req[r].sent[i].request.host =
                    IF TrimStr(req[r].in.domain) = "" THEN "leetcode.com"
                    ELSE TrimStr(req[r].in.domain)

\* C5: a sign-in that succeeds while the request carried session id S leaves
\* S out of the store, stores exactly one new id with the record built from
\* the pasted cookie, leaves every other session alone, and sets the new id
\* in lc_sid.
SignsIn(r) ==
    /\ req[r].pc = "auth_me"
    /\ req'[r].pc = "done"
    /\ req'[r].res.status = 200

C5_Step(r) ==
    SignsIn(r) =>
        LET S == req[r].sid
            new == nextSid'
            cookie == TrimCookie(req[r].in.cookie)
        IN  /\ new \notin DOMAIN sessions
            /\ new # S
            /\ DOMAIN sessions' = (DOMAIN sessions \ {S}) \cup {new}
            /\ \A s \in DOMAIN sessions' \ {new} : sessions'[s] = sessions[s]
            /\ sessions'[new].cookie = cookie
            /\ sessions'[new].csrftoken = extractCookieValue(cookie, "csrftoken")
            /\ sessions'[new].domain = req[r].sent[1].request.host
            /\ sessions'[new].user = req'[r].res.body.user
            /\ req'[r].res.setCookie # << >>
            /\ req'[r].res.setCookie[Len(req'[r].res.setCookie)] = [op |-> "set", sid |-> new]

C5_SignInReplacesSession == [][\A r \in DOMAIN req : C5_Step(r)]_vars

C5_Witness ==
    \E r \in DOMAIN req :
        /\ req[r].pc = "done"
        /\ req[r].kind = "auth"
        /\ req[r].res.status = 200
        /\ req[r].sid \in 1..MaxSid
        /\ req[r].sid \notin DOMAIN sessions
        /\ nextSid \in DOMAIN sessions

\* /me's user-status query has come back with a failure result (non-2xx,
\* unparseable, GraphQL errors).
MeFails(r) ==
    /\ req[r].pc = "me_wait"
    /\ req'[r].pc = "done"
    /\ Failed(req'[r].sent[1])

\* /me's user-status query has failed in any way: a failure result, or the
\* call itself did not complete.
MeFailsAnyhow(r) ==
    /\ req[r].pc = "me_wait"
    /\ req'[r].pc # "me_wait"
    /\ ~Succeeded(req'[r].sent[1])

Arrives(r, kinds) ==
    /\ req[r].pc = "idle"
    /\ req'[r].pc # "idle"
    /\ req'[r].kind \in kinds

Unauthenticated(slot) ==
    /\ slot.pc = "done"
    /\ slot.res = [status |-> 401, body |-> [error |-> "NOT_AUTHENTICATED"],
                   setCookie |-> << >>]
    /\ slot.sent = << >>

Expires(r) ==
    /\ req[r].sid \notin DOMAIN sessions'
    /\ req'[r].pc = "done"
    /\ req'[r].res.status = 401
    /\ req'[r].res.body = [error |-> "SESSION_EXPIRED"]

GoneStaysGone ==
    /\ \A s \in 1..nextSid : s \notin DOMAIN sessions => s \notin DOMAIN sessions'
    /\ \A r \in DOMAIN req :
           (Arrives(r, {"me"}) /\ req'[r].sid \notin DOMAIN sessions) =>
               Unauthenticated(req'[r])

\* C6: when /me is called with a live session and its user-status query
\* fails, the session is deleted and the answer is 401 SESSION_EXPIRED; an
\* id once deleted never comes back, and every /me arriving with an id that
\* is not stored is answered 401 NOT_AUTHENTICATED.
C6_AnyFailureExpires ==
    [][(\A r \in DOMAIN req : MeFailsAnyhow(r) => Expires(r)) /\ GoneStaysGone]_vars

\* What the code does: only a failure result expires the session; when the
\* call itself does not complete the session stays and no answer is written.
C6_FailureResultExpires ==
    [][/\ \A r \in DOMAIN req :
             /\ MeFails(r) => Expires(r)
             /\ (MeFailsAnyhow(r) /\ ~MeFails(r)) =>
                    /\ req'[r].pc = "thrown"
                    /\ UNCHANGED sessions
       /\ GoneStaysGone]_vars

\* C7: logout always answers {ok: true}, and the session id the request
\* carried is not in the store afterwards.
C7_LogoutAlwaysOk ==
    \A r \in DOMAIN req :
        (req[r].pc # "idle" /\ req[r].kind = "logout") =>
            /\ req[r].pc = "done"
            /\ req[r].res.status = 200
            /\ req[r].res.body = [ok |-> TRUE]
            /\ req[r].sid \notin DOMAIN sessions

C7_Witness ==
    \E r \in DOMAIN req :
        /\ req[r].pc = "done"
        /\ req[r].kind = "logout"
        /\ req[r].sid \in 1..nextSid
        /\ req[r].res.body = [ok |-> TRUE]

\* C8: a request to a protected endpoint that carries no session id, or one
\* that is not in the store (never issued, or deleted), is answered the
\* same 401 NOT_AUTHENTICATED and sends nothing upstream.
Protected == {"me", "problems", "problem", "submit", "check"}

C8_NoSessionNoUpstream ==
    [][\A r \in DOMAIN req :
          (Arrives(r, Protected) /\ req'[r].sid \notin DOMAIN sessions) =>
              Unauthenticated(req'[r])]_vars

C8_Witness ==
    \E r \in DOMAIN req :
        /\ req[r].pc = "done"
        /\ req[r].kind = "check"
        /\ req[r].sid \in 1..nextSid
        /\ Unauthenticated(req[r])

\* C10: an upstream request of a handler that goes to another host than the
\* acting session's goes to the secondary domain and carries neither the
\* session's cookie nor its CSRF token.
C10_EnrichmentIsAnonymous ==
    \A r \in DOMAIN req :
        req[r].pc # "idle" =>
            \A i \in 2..Len(req[r].sent) :
                req[r].sent[i].request.host # req[r].sent[1].request.host =>
                    /\ req[r].sent[i].request.host = "leetcode.cn"
                    /\ req[r].sent[i].request.cookie = << >>
                    /\ req[r].sent[i].request.csrftoken = ""

C10_Witness ==
    \E r \in DOMAIN req :
        /\ req[r].pc # "idle"
        /\ req[r].kind = "problem"
        /\ Len(req[r].sent) >= 2
        /\ req[r].sent[1].request.host = "leetcode.com"
        /\ req[r].sent[1].request.cookie # << >>
        /\ req[r].sent[Len(req[r].sent)].request.host = "leetcode.cn"

\* The request r has been answered 200 from GraphQL lookups: the handler's
\* own (exchange 1) and, when it asked the secondary domain, the enrichment
\* lookup (exchange 2).
FromLookup(r, kind) ==
    /\ req[r].pc = "done"
    /\ req[r].kind = kind
    /\ req[r].res.status = 200
    /\ req[r].sent # << >>
    /\ req[r].sent[Len(req[r].sent)].request.path = <<"/graphql/">>
AskedCn(r) ==
    /\ Len(req[r].sent) = 2
    /\ req[r].sent[1].request.host = "leetcode.com"
    /\ req[r].sent[2].request.host = "leetcode.cn"
ItemsBefore(r) == MapSeq(ListItem, QuestionsOf(lcGraphql(req[r].sent[1].answer)))
CnCatalog(r) == QuestionsOf(lcGraphql(req[r].sent[2].answer))
QuestionBefore(r) == Field(lcGraphql(req[r].sent[1].answer).data, "question")
CnQuestion(r) == Field(lcGraphql(req[r].sent[2].answer).data, "question")

\* The list items of a response: as many as before, a populated localized
\* title untouched, a changed item changed in its localized title only and
\* to the title of a catalog entry of its slug; enriching the response's
\* items again changes nothing.
C11_List(r) ==
    LET before == ItemsBefore(r)
        after == req[r].res.body.items
    IN  /\ Len(after) = Len(before)
        /\ \A i \in 1..Len(before) :
            /\ Truthy(before[i].titleZh) => after[i] = before[i]
            /\ after[i] # before[i] =>
                /\ AskedCn(r)
                /\ \E j \in 1..Len(CnCatalog(r)) :
                    /\ CnCatalog(r)[j].titleSlug = before[i].titleSlug
                    /\ after[i] = [before[i] EXCEPT !.titleZh = CnCatalog(r)[j].titleZh]
        /\ (AskedCn(r) /\ CnCatalog(r) # << >>) =>
            /\ after = CnFill(before, CnCatalog(r))
            /\ CnFill(after, CnCatalog(r)) = after

\* The same of a detail response's localized title and content.
C11_Detail(r) ==
    LET before == QuestionBefore(r)
        after == req[r].res.body.question
    IN  /\ Truthy(before.translated_title) =>
            after.translated_title = before.translated_title
        /\ Truthy(before.translated_content) =>
            after.translated_content = before.translated_content
        /\ after # before => AskedCn(r) /\ CnQuestion(r) # NullRec
        /\ (AskedCn(r) /\ CnQuestion(r) # NullRec) =>
            /\ after = CnFillQuestion(before, CnQuestion(r))
            /\ CnFillQuestion(after, CnQuestion(r)) = after

\* C11: the localization fill-in is idempotent and non-destructive: a
\* localized title (list) or title/content (detail) populated before the
\* enrichment is in the response unchanged, only items matched by slug
\* receive a title, and enriching the response again with the same
\* secondary-domain answer gives the same response.
C11_FillInIdempotentAndKeeps ==
    \A r \in DOMAIN req :
        /\ FromLookup(r, "problems") => C11_List(r)
        /\ FromLookup(r, "problem") => C11_Detail(r)

\* A catalog of two items, one with a localized title and one without; the
\* secondary domain has another title for the first and one for the second.
C11_Witness ==
    \E r \in DOMAIN req :
        /\ FromLookup(r, "problems")
        /\ AskedCn(r)
        /\ Len(ItemsBefore(r)) = 2
        /\ ItemsBefore(r)[1].titleZh = "Zh"
        /\ ItemsBefore(r)[2].titleZh = "null"
        /\ \E j, k \in 1..Len(CnCatalog(r)) :
            /\ CnCatalog(r)[j].titleSlug = ItemsBefore(r)[1].titleSlug
            /\ CnCatalog(r)[j].titleZh = "Cn"
            /\ CnCatalog(r)[k].titleSlug = ItemsBefore(r)[2].titleSlug
            /\ CnCatalog(r)[k].titleZh = "Cn"
        /\ req[r].res.body.items[2].titleZh = "Cn"

\* A step of a status-check request: the handler starts, or its upstream
\* call is answered.
CheckStep(r) ==
    /\ req'[r] # req[r]
    /\ req'[r].pc # "idle"
    /\ req'[r].kind = "check"
CheckAnswered2xx(r) ==
    /\ req[r].pc = "check_wait"
    /\ LastSent(r)'.answer.net
    /\ HttpOk(LastSent(r)'.answer.status)
    /\ LastSent(r)'.answer.text.parse = "obj"

\* C12: a step of GET /api/submission/:id/check leaves the session store
\* (and the id counter and the browser's cookie) as it was, and when the
\* upstream answers 2xx with a status payload, whatever its state, the
\* response is 200 with that payload as its submission field and nothing
\* else: the response is determined by the upstream answer alone.
C12_CheckIsPassthrough ==
    [][\A r \in DOMAIN req :
          CheckStep(r) =>
              /\ sessions' = sessions
              /\ nextSid' = nextSid
              /\ jar' = jar
              /\ CheckAnswered2xx(r) =>
                  /\ req'[r].pc = "done"
                  /\ req'[r].res =
                        Reply(200, [submission |-> LastSent(r)'.answer.text.data], << >>)
                  /\ Len(req'[r].sent) = 1]_vars

C12_Witness ==
    \E r \in DOMAIN req :
        /\ req[r].pc = "done"
        /\ req[r].kind = "check"
        /\ req[r].res.status = 200
        /\ req[r].res.body.submission # NullRec
        /\ req[r].res.body.submission.state = "SUCCESS"
        /\ req[r].res.body.submission.status_msg = "Wrong Answer"
        /\ req[r].sid \in DOMAIN sessions

\* Reading the exchanges of a catalog request.
IsRest(x) == x.request.path = RestPath("algorithms")
IsListQuery(x) == QueryOf(x) \in {QUERY_PROBLEMSET_LIST, QUERY_PROBLEMSET_LIST_TITLECN}
Localized(r) == req[r].in.lang \in {"zh", "zh-cn", "cn"}
\* What lcProblemsetQuestionList returned to the handler.
ListLookup(r) ==
    IF Succeeded(req[r].sent[1]) THEN lcGraphql(req[r].sent[1].answer)
    ELSE lcProblemsetQuestionListReturn(lcGraphql(req[r].sent[1].answer),
                                        lcGraphql(req[r].sent[2].answer))
NoItems(r) == LookupAnswered(r) /\ QuestionsOf(ListLookup(r)) = << >>

\* C13: in a catalog request that asks for localization the first upstream
\* request is the GraphQL list query; the REST endpoint is called exactly
\* when that lookup has yielded no items (both shapes failed, or the list is
\* empty), directly after it, and nothing is sent after the REST call; a
\* request that does not ask for localization sends the REST call only.
\* Every item of a response built from the REST answer has a null titleZh.
C13_GraphqlThenRest ==
    \A r \in DOMAIN req :
        (req[r].pc # "idle" /\ req[r].kind = "problems" /\ req[r].sent # << >>) =>
            LET sent == req[r].sent
                n == Len(sent)
            IN  /\ ~Localized(r) => n = 1 /\ IsRest(sent[1])
                /\ Localized(r) =>
                    /\ IsListQuery(sent[1])
                    /\ \A i \in 1..n :
                        IsRest(sent[i]) =>
                            /\ i = n
                            /\ NoItems(r)
                            /\ i = LookupLen(r) + 1
                            /\ \A j \in 1..(i - 1) : IsListQuery(sent[j])
                    /\ NoItems(r) => n = LookupLen(r) + 1 /\ IsRest(sent[n])
                /\ (req[r].pc = "done" /\ req[r].res.status = 200 /\ IsRest(sent[n])) =>
                    \A i \in 1..Len(req[r].res.body.items) :
                        req[r].res.body.items[i].titleZh = "null"

\* Both shapes of the list query failed, the REST answer gave the items.
C13_Witness ==
    \E r \in DOMAIN req :
        /\ req[r].pc = "done"
        /\ req[r].kind = "problems"
        /\ req[r].in.lang = "zh-cn"
        /\ Len(req[r].sent) = 3
        /\ Failed(req[r].sent[1])
        /\ Failed(req[r].sent[2])
        /\ IsRest(req[r].sent[3])
        /\ req[r].res.status = 200
        /\ req[r].res.body.items # << >>

\* The upstream call of the request's last exchange failed (fetch rejected).
Unreachable(r) ==
    /\ req[r].pc \in {"done", "thrown"}
    /\ req[r].sent # << >>
    /\ LastSent(r).answer = NetError

\* C14 (as the specification states it): a request whose upstream call
\* fails is answered with the error UPSTREAM_UNREACHABLE.
C14_NetErrorIsUnreachable ==
    \A r \in DOMAIN req :
        Unreachable(r) =>
            /\ req[r].pc = "done"
            /\ Prop(req[r].res.body, "error") = "UPSTREAM_UNREACHABLE"

\* C14 (what the code does): the failed call rejects the handler's promise,
\* no response is written by the handler; a non-2xx answer never does that.
C14_NetErrorRejectsHandler ==
    \A r \in DOMAIN req :
        /\ Unreachable(r) => req[r].pc = "thrown"
        /\ req[r].pc = "thrown" =>
            ~(LastSent(r).answer.net /\ ~HttpOk(LastSent(r).answer.status))

\* The fields of a stored record the sign-in wrote.
Identity(session) ==
    [domain |-> session.domain, cookie |-> session.cookie,
     csrftoken |-> session.csrftoken, user |-> session.user]
DataKinds == {"problems", "problem", "submit", "check"}
DataStepOf(r) ==
    /\ req'[r] # req[r]
    /\ req'[r].pc # "idle"
    /\ req'[r].kind \in DataKinds

\* C15: a step of /api/problems, /api/problem/:slug, /api/submit or
\* /api/submission/:id/check, whatever the upstream answered, leaves the
\* set of stored sessions and each record's domain, cookie, CSRF token and
\* cached user as they were; its response sets or clears no cookie, and it
\* answers 401 only before any upstream call (no session), never because of
\* what the upstream returned.
C15_DataEndpointsKeepSessions ==
    [][\A r \in DOMAIN req :
          DataStepOf(r) =>
              /\ DOMAIN sessions' = DOMAIN sessions
              /\ \A sid \in DOMAIN sessions :
                    Identity(sessions'[sid]) = Identity(sessions[sid])
              /\ nextSid' = nextSid
              /\ req'[r].pc = "done" =>
                    /\ req'[r].res.setCookie = << >>
                    /\ req'[r].res.status = 401 => req'[r].sent = << >>]_vars

\* The upstream answered a request of a live session with 401, and the
\* session is still stored.
C15_Witness ==
    \E r \in DOMAIN req :
        /\ req[r].pc = "done"
        /\ req[r].kind \in DataKinds
        /\ req[r].sent # << >>
        /\ LastSent(r).answer.net
        /\ LastSent(r).answer.status = 401
        /\ req[r].res.status = 502
        /\ req[r].sid \in DOMAIN sessions

\* Counting the upstream requests of a request.
IsUserQuery(x) == QueryOf(x) \in {QUERY_USER_COM, QUERY_USER_CN}
IsQuestionQuery(x) == QueryOf(x) \in {QUERY_QUESTION, QUERY_QUESTION_TITLECN}
IsSubmitCall(x) == x.request.path[1] = "/problems/"
IsCheckCall(x) == x.request.path[1] = "/submissions/detail/"
Calls(r, Is(_)) == Cardinality({i \in 1..Len(req[r].sent) : Is(req[r].sent[i])})
CallsTo(r, host, Is(_)) ==
    Cardinality({i \in 1..Len(req[r].sent) :
                    Is(req[r].sent[i]) /\ req[r].sent[i].request.host = host})
\* The handler returned before it called the upstream: no session, or a
\* request that fails validation.
RejectedLocally(r) ==
    /\ req[r].pc = "done"
    /\ req[r].res.status \in {400, 401}
    /\ req[r].sent = << >>

\* C16: no request is sent twice by a handler: sign-in and /api/auth/me send
\* one user-status query (none when they reject the request themselves) and
\* nothing else, a list or detail lookup sends at most two GraphQL requests
\* to a host, /api/submit at most one submit call, the status check one
\* status call and nothing else, logout nothing; no handler sends more
\* than four upstream requests.
C16_NoRetryBoundedCalls ==
    \A r \in DOMAIN req :
        req[r].pc # "idle" =>
            LET sent == req[r].sent
                n == Len(sent)
            IN  /\ \A i, j \in 1..n : i # j => sent[i].request # sent[j].request
                /\ n <= 4
                /\ req[r].kind \in {"auth", "me"} =>
                    /\ \A i \in 1..n : IsUserQuery(sent[i])
                    /\ IF RejectedLocally(r) THEN n = 0 ELSE n = 1
                /\ req[r].kind = "logout" => n = 0
                /\ req[r].kind = "check" =>
                    /\ \A i \in 1..n : IsCheckCall(sent[i])
                    /\ IF RejectedLocally(r) THEN n = 0 ELSE n = 1
                /\ req[r].kind = "submit" =>
                    /\ Calls(r, IsSubmitCall) <= 1
                    /\ Calls(r, IsQuestionQuery) <= 2
                    /\ n = Calls(r, IsSubmitCall) + Calls(r, IsQuestionQuery)
                /\ req[r].kind = "problem" =>
                    /\ \A host \in {"leetcode.com", "leetcode.cn"} :
                          CallsTo(r, host, IsQuestionQuery) <= 2
                    /\ \A i \in 1..n : IsQuestionQuery(sent[i])
                /\ req[r].kind = "problems" =>
                    /\ \A host \in {"leetcode.com", "leetcode.cn"} :
                          CallsTo(r, host, IsListQuery) <= 2
                    /\ Calls(r, IsRest) <= 1
                    /\ n = Calls(r, IsListQuery) + Calls(r, IsRest)

\* A detail request that used both shapes on the primary domain and both on
\* the secondary one, where both failed.
C16_Witness ==
    \E r \in DOMAIN req :
        /\ req[r].pc = "done"
        /\ req[r].kind = "problem"
        /\ Len(req[r].sent) = 4
        /\ Failed(req[r].sent[3])
        /\ Failed(req[r].sent[4])

\* C17: a sign-in whose user-status query reports a signed-in user is
\* answered 200 whatever the user's is_verified; the response's
\* emailNotVerified is true when the normalized profile's is_verified is
\* false, and false when it is true or null (unknown).
C17_FlagIffNotVerified ==
    \A r \in DOMAIN req :
        (SignInAnswered(r) /\ UserStatusOf(r) # NullRec
         /\ Truthy(UserStatusOf(r).is_signed_in)) =>
            LET user == req[r].res.body.user
            IN  /\ req[r].res.status = 200
                /\ user = normalizeUser(req[r].sent[1].request.host, UserStatusOf(r))
                /\ user.is_verified \in {"true", "false", "null"}
                /\ user.is_verified = "false" => req[r].res.body.emailNotVerified = TRUE
                /\ user.is_verified \in {"true", "null"} =>
                       req[r].res.body.emailNotVerified = FALSE

\* The primary domain reports a signed-in user whose email is not verified.
C17_Witness ==
    \E r \in DOMAIN req :
        /\ SignInAnswered(r)
        /\ req[r].sent[1].request.host = "leetcode.com"
        /\ UserStatusOf(r) # NullRec
        /\ UserStatusOf(r).is_signed_in = "true"
        /\ UserStatusOf(r).is_verified = "false"
        /\ req[r].res.status = 200
        /\ req[r].res.body.emailNotVerified = TRUE

\* C18: the profile a sign-in answers with (in the 200 and in the 401
\* NOT_SIGNED_IN body), normalized from a user-status payload of either
\* domain, has is_signed_in true or false, and is_verified true, false or
\* null, null exactly when the payload's is_verified is null or missing; a
\* boolean is_verified is handed on as it is.
C18_DefiniteSignedInUnknownVerified ==
    \A r \in DOMAIN req :
        (SignInAnswered(r) /\ UserStatusOf(r) # NullRec) =>
            LET raw == UserStatusOf(r)
                user == req[r].res.body.user
            IN  /\ user # NullRec
                /\ user.is_signed_in \in {"true", "false"}
                /\ user.is_signed_in = "true" <=> Truthy(raw.is_signed_in)
                /\ user.is_verified \in {"true", "false", "null"}
                /\ user.is_verified = "null" <=> raw.is_verified \in {"null", "undefined"}
                /\ raw.is_verified \in {"true", "false"} => user.is_verified = raw.is_verified

\* The secondary domain's payload lacks is_verified and has a non-boolean
\* is_signed_in.
C18_Witness ==
    \E r \in DOMAIN req :
        /\ SignInAnswered(r)
        /\ req[r].sent[1].request.host = "leetcode.cn"
        /\ UserStatusOf(r) # NullRec
        /\ UserStatusOf(r).is_verified = "undefined"
        /\ UserStatusOf(r).is_signed_in = "#1"
        /\ req[r].res.body.user.is_verified = "null"
        /\ req[r].res.body.user.is_signed_in = "true"

\* The REST answer's pairs and the GraphQL answer's questions a 200 catalog
\* response was built from.
FromRest(r) ==
    /\ req[r].pc = "done"
    /\ req[r].kind = "problems"
    /\ req[r].res.status = 200
    /\ IsRest(LastSent(r))
PairsOf(r) == LastSent(r).answer.text.data.stat_status_pairs
NoCount(v) == v \in {"undefined", "null", "#0", "'0'"}

\* C19: an item of a catalog response has acRate null when, on the REST
\* path, its problem's submitted count is missing, null or zero, and when,
\* on the GraphQL path, the upstream's acRate is missing or null; in these
\* cases it is neither 0 nor NaN.  A numeric upstream acRate is passed on.
\* (Every problem of the REST catalogs matches the search text, so items
\* and pairs correspond by position.)
C19_NoRateIsNull ==
    \A r \in DOMAIN req :
        /\ FromRest(r) =>
            /\ Len(req[r].res.body.items) <= Len(PairsOf(r))
            /\ req[r].in.q = "" => Len(req[r].res.body.items) = Len(PairsOf(r))
            /\ \A i \in 1..Len(req[r].res.body.items) :
                LET item == req[r].res.body.items[i]
                    p == PairsOf(r)[i]
                IN  /\ NoCount(p.stat.total_submitted) => item.acRate = "null"
                    /\ item.acRate \in {"null", "#0", "#50", "#100"}
                    /\ item.acRate = "null" => NoCount(p.stat.total_submitted)
        /\ FromLookup(r, "problems") =>
            \A i \in 1..Len(req[r].res.body.items) :
                LET item == req[r].res.body.items[i]
                    x == QuestionsOf(ListLookup(r))[i]
                IN  /\ x.acRate \in {"null", "undefined"} => item.acRate = "null"
                    /\ IsNumber(x.acRate) => item.acRate = x.acRate
                    /\ item.acRate # "NaN"

\* A REST catalog of two problems, the first never submitted to.
C19_Witness ==
    \E r \in DOMAIN req :
        /\ FromRest(r)
        /\ Len(req[r].res.body.items) = 2
        /\ PairsOf(r)[1].stat.total_submitted = "#0"
        /\ req[r].res.body.items[1].acRate = "null"
        /\ req[r].res.body.items[2].acRate = "#50"

\* A submit request that passed the handler's own checks (session, slug,
\* lang, code) and has ended.
SubmitEnded(r) ==
    /\ req[r].pc \in {"done", "thrown"}
    /\ req[r].kind = "submit"
    /\ req[r].sent # << >>
\* What lcQuestion returned to the handler.
QuestionLookup(r) ==
    IF Succeeded(req[r].sent[1]) THEN lcGraphql(req[r].sent[1].answer)
    ELSE lcQuestionReturn(lcGraphql(req[r].sent[1].answer),
                          lcGraphql(req[r].sent[2].answer))
LookupGaveId(r) ==
    /\ LookupAnswered(r)
    /\ QuestionLookup(r).ok
    /\ Truthy(Prop(Field(QuestionLookup(r).data, "question"), "id"))

\* C20 (as the specification states it): a submit that reaches the upstream
\* ends either with a submissionId or with 502 UPSTREAM_ERROR.
C20_EveryOtherOutcomeIs502 ==
    \A r \in DOMAIN req :
        SubmitEnded(r) =>
            /\ req[r].pc = "done"
            /\ \/ req[r].res.status = 200
               \/ /\ req[r].res.status = 502
                  /\ req[r].res.body.error = "UPSTREAM_ERROR"

\* C20 (what the code does): without a questionId the detail lookup comes
\* first and the submit call is sent only after it gave a question id;
\* with one the submit call is the only request; a submissionId is
\* answered only for a submit call answered 2xx with an identifier; every
\* other response written after an upstream call is 502 UPSTREAM_ERROR;
\* but a rejected call, or a lookup answered with the JSON null, ends the
\* handler without a response.
C20_LookupBeforeSubmit ==
    \A r \in DOMAIN req :
        (req[r].pc # "idle" /\ req[r].kind = "submit") =>
            LET sent == req[r].sent
                n == Len(sent)
            IN  /\ ~Truthy(req[r].in.questionId) =>
                    \A i \in 1..n :
                        IF IsSubmitCall(sent[i])
                        THEN i = n /\ i > 1 /\ LookupGaveId(r) /\ i = LookupLen(r) + 1
                        ELSE IsQuestionQuery(sent[i])
                /\ Truthy(req[r].in.questionId) =>
                    n <= 1 /\ \A i \in 1..n : IsSubmitCall(sent[i])
                /\ (req[r].pc = "done" /\ "submissionId" \in DOMAIN req[r].res.body) =>
                    /\ req[r].res.status = 200
                    /\ IsSubmitCall(sent[n])
                    /\ HttpOk(sent[n].answer.status)
                    /\ lcSubmit(sent[n].answer).ok
                    /\ req[r].res.body.submissionId = lcSubmit(sent[n].answer).submissionId
                /\ (req[r].pc = "done" /\ n > 0
                    /\ "submissionId" \notin DOMAIN req[r].res.body) =>
                    /\ req[r].res.status = 502
                    /\ req[r].res.body.error = "UPSTREAM_ERROR"
                /\ req[r].pc = "thrown" =>
                    \/ sent[n].answer = NetError
                    \/ /\ IsQuestionQuery(sent[n])
                       /\ sent[n].answer.text.parse = "null"

\* The lookup needed its second shape, gave the id, and the submit call was
\* answered with a submission id.
C20_Witness ==
    \E r \in DOMAIN req :
        /\ req[r].pc = "done"
        /\ req[r].kind = "submit"
        /\ Len(req[r].sent) = 3
        /\ Failed(req[r].sent[1])
        /\ IsSubmitCall(req[r].sent[3])
        /\ req[r].res.status = 200
        /\ req[r].res.body.submissionId = "#50"

\* The kind of failure of an upstream answer to a GraphQL request: the body
\* does not parse, else the status is not 2xx, else the JSON carries errors.
FailureKind(answer) ==
    IF answer.text.parse = "bad" THEN "INVALID_JSON"
    ELSE IF ~HttpOk(answer.status) THEN "HTTP_ERROR"
    ELSE "GRAPHQL_ERROR"

\* C21: a sign-in whose user-status query fails outright (non-2xx, a body
\* that is not JSON, GraphQL errors) is answered 401 AUTH_FAILED, and the
\* body's detail carries the upstream status, the kind of failure and the
\* raw body of that query; no cookie is set.
C21_AuthFailedCarriesDetail ==
    \A r \in DOMAIN req :
        (req[r].pc = "done" /\ req[r].kind = "auth" /\ Len(req[r].sent) = 1
         /\ Failed(req[r].sent[1])) =>
            LET answer == req[r].sent[1].answer
            IN  /\ req[r].res.status = 401
                /\ req[r].res.body.error = "AUTH_FAILED"
                /\ req[r].res.body.detail =
                       [threw |-> FALSE, ok |-> FALSE, status |-> answer.status,
                        error |-> FailureKind(answer), raw |-> answer.text]
                /\ req[r].res.setCookie = << >>

\* The upstream answered 403 with a JSON body.
C21_Witness ==
    \E r \in DOMAIN req :
        /\ req[r].pc = "done"
        /\ req[r].kind = "auth"
        /\ Len(req[r].sent) = 1
        /\ req[r].sent[1].answer = HttpResp(403, Json(FALSE, NullRec))
        /\ req[r].res.status = 401
        /\ req[r].res.body.detail.error = "HTTP_ERROR"

\* A sign-in whose user-status query got an HTTP answer, and has ended: what
\* lcGraphql made of the answer shows in the response (AUTH_FAILED with the
\* failure's kind, or the handler going on to the profile).
AttemptEnded(r) ==
    /\ req[r].pc \in {"done", "thrown"}
    /\ req[r].kind = "auth"
    /\ Len(req[r].sent) = 1
    /\ req[r].sent[1].answer.net
\* HTTP 2xx, a body that parses as JSON, no errors in it.
SuccessAsStated(answer) ==
    /\ HttpOk(answer.status)
    /\ answer.text.parse # "bad"
    /\ ~(answer.text.parse = "obj" /\ answer.text.errors)
ClassifiedAsStated(r) ==
    LET answer == req[r].sent[1].answer
    IN  /\ req[r].pc = "done"
        /\ IF SuccessAsStated(answer)
           THEN Prop(req[r].res.body, "error") # "AUTH_FAILED"
           ELSE /\ Prop(req[r].res.body, "error") = "AUTH_FAILED"
                /\ ~req[r].res.body.detail.ok
                /\ req[r].res.body.detail.error = FailureKind(answer)

\* C23 (as the specification states it): an attempt is a success exactly
\* when the answer is 2xx, parses as JSON and has no errors; otherwise it is
\* a failure of kind INVALID_JSON, else HTTP_ERROR, else GRAPHQL_ERROR.
C23_ClassifiedExactly ==
    \A r \in DOMAIN req : AttemptEnded(r) => ClassifiedAsStated(r)

\* C23 (what the code does): the same, except that a 2xx answer whose body
\* is the JSON null is neither: reading `json.errors` throws.
C23_ClassifiedUnlessNull ==
    \A r \in DOMAIN req :
        AttemptEnded(r) =>
            IF HttpOk(req[r].sent[1].answer.status)
               /\ req[r].sent[1].answer.text.parse = "null"
            THEN req[r].pc = "thrown"
            ELSE ClassifiedAsStated(r)

\* A step of a sign-in request that does not end it with 200, and the
\* browser taking a response of a failed sign-in.
FailingSignInStep(r) ==
    /\ req'[r] # req[r]
    /\ req'[r].pc # "idle"
    /\ req'[r].kind = "auth"
    /\ ~(req'[r].pc = "done" /\ req'[r].res.status = 200)
FailedSignIn(slot) ==
    /\ slot.pc = "done"
    /\ slot.kind = "auth"
    /\ slot.res.status # 200
TakesFailedSignIn(r) == FailedSignIn(req[r]) /\ req'[r].pc = "idle"

\* C24: a sign-in that fails (400 COOKIE_REQUIRED, 400 COOKIE_INVALID, 401
\* AUTH_FAILED, 401 NOT_SIGNED_IN) changes nothing in the session store at
\* any of its steps, its response sets or clears no cookie, and the
\* browser's lc_sid is the same after the response as before: a session the
\* browser had stays stored and named by its cookie.
C24_FailedSignInChangesNothing ==
    [][\A r \in DOMAIN req :
          /\ FailingSignInStep(r) =>
                /\ sessions' = sessions
                /\ nextSid' = nextSid
                /\ jar' = jar
                /\ FailedSignIn(req'[r]) =>
                      /\ req'[r].res.setCookie = << >>
                      /\ req'[r].res.body.error \in
                            {"COOKIE_REQUIRED", "COOKIE_INVALID",
                             "AUTH_FAILED", "NOT_SIGNED_IN"}
          /\ TakesFailedSignIn(r) => jar' = jar /\ sessions' = sessions]_vars

\* A browser with a stored session got 401 NOT_SIGNED_IN on a later sign-in.
C24_Witness ==
    \E r \in DOMAIN req :
        /\ FailedSignIn(req[r])
        /\ req[r].res.body.error = "NOT_SIGNED_IN"
        /\ jar[req[r].b] \in DOMAIN sessions
        /\ req[r].sid = jar[req[r].b]

\* No request is in flight and no response is on its way.
Quiescent == \A r \in DOMAIN req : req[r].pc = "idle"

\* C25 (as stated): in a quiescent state every stored session is the one
\* the browser's lc_sid names, and once a sign-in has succeeded the cookie,
\* if the browser has one, names a stored session.
C25_NoOrphanWhenQuiescent ==
    Quiescent =>
        /\ \A sid \in DOMAIN sessions : \E b \in Browsers : jar[b] = sid
        /\ \A b \in Browsers :
              (nextSid > 0 /\ jar[b] # NoSid) => jar[b] \in DOMAIN sessions

\* C25 (what the code guarantees): a sign-in deletes only the session its
\* own request named, so the store never holds more sessions than sign-ins
\* have succeeded, and each stored id was issued.
C25_StoredWereIssued ==
    /\ DOMAIN sessions \subseteq 1..nextSid
    /\ Quiescent => \A b \in Browsers : jar[b] \in {NoSid, StaleSid} \cup 1..nextSid

\* C26: a session id that was issued and is no longer stored is never
\* stored again, whatever step is taken (a /me answered after the deletion
\* included).
C26_RemovedStaysRemoved ==
    [][\A sid \in 1..nextSid :
          sid \notin DOMAIN sessions => sid \notin DOMAIN sessions']_vars

\* C26 witness: a /me request answered 200 for a session that was deleted
\* while the request was waiting for the upstream.
C26_Witness ==
    \E r \in DOMAIN req :
        /\ req[r].pc = "done"
        /\ req[r].kind = "me"
        /\ req[r].res.status = 200
        /\ req[r].sid \in 1..nextSid
        /\ req[r].sid \notin DOMAIN sessions

\* The cached user of a stored record is present and signed in.
CachedSignedIn(session) ==
    /\ session.user # NullRec
    /\ session.user.is_signed_in = "true"

\* C27 (as stated): every record in the store has a non-null cached user who
\* is signed in.
C27_StoredUserSignedIn ==
    \A sid \in DOMAIN sessions : CachedSignedIn(sessions[sid])

\* C27 (what the code guarantees): a record enters the store with a non-null
\* cached user who is signed in.
C27_CreatedSignedIn ==
    [][\A sid \in DOMAIN sessions' \ DOMAIN sessions :
          CachedSignedIn(sessions'[sid])]_vars

\* The session id carried by the request of slot r in the step taken.
CarriedSid(r) == IF req[r].pc = "idle" THEN req'[r].sid ELSE req[r].sid

\* C28: a step of a sign-in, /me or logout request leaves every record
\* stored under an id other than the one the request carried in the store
\* and unmodified.
C28_OtherSessionsUntouched ==
    [][\A r \in DOMAIN req :
          req'[r] # req[r] =>
              \A sid \in DOMAIN sessions \ {CarriedSid(r)} :
                  /\ sid \in DOMAIN sessions'
                  /\ sessions'[sid] = sessions[sid]]_vars

\* C28 witness: a logout has deleted the session its request named while
\* another session is stored.
C28_Witness ==
    \E r \in DOMAIN req :
        /\ req[r].pc = "done"
        /\ req[r].kind = "logout"
        /\ req[r].sid \in 1..nextSid
        /\ req[r].sid \notin DOMAIN sessions
        /\ DOMAIN sessions # {}

\* C29: at most one interval runs, and an interval that runs is the one
\* pollTimer refers to (every other one that was started has been cleared).
C29_OneTimerReferenced ==
    /\ Cardinality(client.timers) <= 1
    /\ client.timers \subseteq {client.pollTimer}
    /\ client.timers \subseteq 1..client.nextTimer

\* C29 witness: a second submission has run to its end while the timer of
\* the first was still running, and that timer is the only one.
C29_Witness ==
    /\ client.submissionId = 2
    /\ client.pcSubmit = "idle"
    /\ client.pollTimer = 1
    /\ client.timers = {1}

\* The step is the answer to the check that submitSolution awaits.
AwaitedAnswered == client.pcSubmit = "poll" /\ client'.pcSubmit = "idle"

\* The step is the answer to a check for `sub` that a tick started.
TickAnswered(sub) == client'.polls[sub] < client.polls[sub]

\* The answer taken in the step is a snapshot in state SUCCESS (in any
\* case), or the first failure of a check.
EndsPolling ==
    \/ /\ client'.submission # NullRec
       /\ toUpperCase(client'.submission.state) = "SUCCESS"
    \/ /\ client.submitError # "CHECK_FAILED"
       /\ client'.submitError = "CHECK_FAILED"

NoTimerRuns(c) == c.pollTimer = NoTimer /\ c.timers = {}

\* C22 (as stated): when a check for the current submission is answered
\* with state SUCCESS or fails, no poll timer runs afterwards.
C22_EndingCheckStopsTimer ==
    [][\A sub \in 1..MaxSub :
          ( /\ sub = client.submissionId
            /\ (TickAnswered(sub) \/ (AwaitedAnswered /\ client.awaited = sub))
            /\ EndsPolling )
          => NoTimerRuns(client')]_vars

\* C22 (what the code guarantees): when a check that a timer tick started
\* is answered with state SUCCESS or fails, and submitSolution is not
\* awaiting its own check, no poll timer runs afterwards.
C22_EndingTickStopsTimer ==
    [][\A sub \in 1..MaxSub :
          (TickAnswered(sub) /\ EndsPolling) => NoTimerRuns(client')]_vars

\* C30 (as stated): while no submit has been made since the last reset, the
\* submission id, the snapshot and the poll timer are empty.
C30_EmptyAfterReset ==
    client.sinceReset =>
        /\ client.submissionId = NoSub
        /\ client.submission = NullRec
        /\ NoTimerRuns(client)

\* C30 (what the code guarantees): the reset itself leaves the submission
\* id, the snapshot and the poll timer empty.
C30_ResetEmpties ==
    [][(client'.sinceReset /\ ~client.sinceReset) =>
          /\ client'.submissionId = NoSub
          /\ client'.submission = NullRec
          /\ NoTimerRuns(client')]_vars

\* The page displays a snapshot in state SUCCESS (in any case).
ShowsSuccess(c) ==
    /\ c.submission # NullRec
    /\ toUpperCase(c.submission.state) = "SUCCESS"

\* The step is the answer to a check for `sub`.
CheckAnswered(sub) ==
    TickAnswered(sub) \/ (AwaitedAnswered /\ client.awaited = sub)

\* C31 (as stated): while the page displays a SUCCESS snapshot of the
\* current submission, the answer to a check for that submission that was
\* started before the SUCCESS answer leaves a SUCCESS snapshot displayed.
\* (The submission is the only one made so far, so the snapshot displayed
\* is its; no check in flight was started after the SUCCESS answer.)
C31_SuccessSnapshotStays ==
    [][\A sub \in 1..MaxSub :
          ( /\ sub = client.submissionId
            /\ sub = client.nextSub
            /\ client.nextSub = 1
            /\ ShowsSuccess(client)
            /\ sub \notin client.late
            /\ CheckAnswered(sub) )
          => ShowsSuccess(client')]_vars

\* C31 (what the code guarantees): the snapshot displayed changes only with
\* the answer to a check, a submit or a reset.
C31_SnapshotChangesOnlyByAnswer ==
    [][client'.submission # client.submission =>
          \/ \E sub \in 1..MaxSub : CheckAnswered(sub)
          \/ client.pcSubmit = "idle" /\ client'.pcSubmit = "submit"
          \/ client'.sinceReset]_vars

====
